---- MODULE Spec2Model ----
(***************************************************************************)
(* Model of the MCP client: the stdio transport's reader task and          *)
(* broadcast channel (src/src/transport/stdio.rs), the message decoder     *)
(* (src/mcp_rust_sdk/src/transport/mod.rs) and the Client's forwarder      *)
(* task, request/initialize/notify operations (src/src/client/mod.rs).     *)
(*                                                                         *)
(* Option<T> is modelled as a sequence: <<>> is None, <<x>> is Some(x).    *)
(***************************************************************************)
EXTENDS Integers, Sequences, FiniteSets, TLC

\* ------------------------------------------------------------------ bounds
\* Number of lines the peer writes on its stdout in one run.
MaxLines == 2
\* Number of API calls (request / initialize / notify) made on one Client.
MaxCalls == 2
\* Number of shutdown() calls made on one Client.
MaxShutdowns == 2
\* Number of callers that invoke StdioTransport::send concurrently.
MaxSenders == 3
\* Number of marked lines the peer writes when the order of delivery is
\* observed.
MaxMarked == 3
\* Number of lines in a short stderr file.
MaxStderrLines == 4
\* Number of lines the peer writes beyond the capacity of the broadcast
\* channel while the subscriber is behind.
MaxOverrun == 2
\* Number of tasks that call request() on one Client concurrently.
MaxCallers == 2
\* the most messages a ChatState holds in the model
MaxMessages == 3
\* Number of content blocks in a tool result.
MaxContent == 3
\* Number of consecutive iterations of the liveness loop of request() that
\* elapse in one step of the model (no other task runs between them).
PollBurst == 50

\* ------------------------------------------------------- program constants
\* for _ in 1..=100 : number of 300 ms liveness polls before the timeout.
PollLimit == 100
\* broadcast::channel(100)
BroadcastCapacity == 100
\* tail_lines.unwrap_or(100)
DefaultTail == 100

None == <<>>
Some(x) == <<x>>

\* --------------------------------------------------------------- values
\* RequestId::Number(n)
NumId(n) == [k |-> "num", n |-> n]

\* JSON values carried as result payloads.  "null" is JSON null, "InitOk"
\* is an object that has the shape of InitializeResult (with capabilities
\* "caps"), "Other" is a JSON value that does not have that shape.
ResultValues == {"InitOk", "Other"}

\* The error object of a Response: numeric code, message, optional data.
NotFoundError == [code |-> -32601, message |-> "not found", data |-> None]
CustomError == [code |-> -12345, message |-> "custom", data |-> Some("d")]

\* Exit statuses a subprocess may report.
ExitStatuses == {1}

\* The child process held in Client.subprocess: "running", "exited" with a
\* status, or "lost" (it is gone and its status cannot be queried any more,
\* e.g. it was reaped elsewhere).
Child(state, status) == [state |-> state, status |-> status]

\* child.try_wait(): "None" for Ok(None), "Exited" for Ok(Some(status)),
\* "Err" for Err(e).
TryWait(child) ==
    CASE child.state = "running" -> "None"
      [] child.state = "exited"  -> "Exited"
      [] OTHER                   -> "Err"

\* ErrorCode::from(i32): numeric JSON-RPC code to the enumerated kind.
ErrorCodeFrom(c) ==
    CASE c = -32700 -> "ParseError"
      [] c = -32600 -> "InvalidRequest"
      [] c = -32601 -> "MethodNotFound"
      [] c = -32602 -> "InvalidParams"
      [] c = -32603 -> "InternalError"
      [] c = -32002 -> "ServerNotInitialized"
      [] c = -32001 -> "UnknownErrorCode"
      [] c = -32000 -> "RequestFailed"
      [] OTHER      -> "UnknownErrorCode"

\* ---------------------------------------------------------- Result<_, Error>
OkR(v) ==
    [kind |-> "Ok", value |-> v, code |-> "", message |-> "",
     data |-> None, status |-> None]
\* Error::Protocol { code, message, data }
ProtocolErr(code, msg, data) ==
    [kind |-> "Protocol", value |-> "", code |-> code, message |-> msg,
     data |-> data, status |-> None]
\* Error::Other(String)
OtherErr(msg, status) ==
    [kind |-> "Other", value |-> "", code |-> "", message |-> msg,
     data |-> None, status |-> status]
\* Error::Io(String)
IoErr(msg) ==
    [kind |-> "Io", value |-> "", code |-> "", message |-> msg,
     data |-> None, status |-> None]
\* Error::Serialization(String)
SerializationErr(msg) ==
    [kind |-> "Serialization", value |-> "", code |-> "", message |-> msg,
     data |-> None, status |-> None]

\* ------------------------------------------------------------- messages
\* Message::Request / Message::Response / Message::Notification
RequestMsg(id, method) ==
    [type |-> "Request", id |-> Some(id), method |-> method,
     params |-> None, result |-> None, error |-> None]
ResponseMsg(id, result, error) ==
    [type |-> "Response", id |-> Some(id), method |-> "",
     params |-> None, result |-> result, error |-> error]
NotificationMsg(method) ==
    [type |-> "Notification", id |-> None, method |-> method,
     params |-> None, result |-> None, error |-> None]
\* The message, or the JSON object, with its params member set to p.
WithParams(m, p) == [m EXCEPT !.params = p]

\* ------------------------------------------------------------ wire lines
\* A line on the peer's stdout.  form "object" is a JSON object described by
\* which of the members id, method, params, result, error it carries (a
\* member may be JSON null); "empty" is a blank line; "nonutf8" is a line
\* whose bytes are not valid UTF-8.
ObjLine(id, method, result, error) ==
    [form |-> "object", id |-> id, method |-> method, params |-> None,
     result |-> result, error |-> error]
NonUtf8Line == [form |-> "nonutf8", id |-> None, method |-> None,
                params |-> None, result |-> None, error |-> None]
EmptyLine == [form |-> "empty", id |-> None, method |-> None,
              params |-> None, result |-> None, error |-> None]

\* Ids the peer puts in its lines: the ids the Client can issue in a run.
PeerIds == { NumId(n) : n \in 1..MaxCalls }

\* The lines the peer may write: for every id a Response with a result, with
\* a null result, with an error, and with both; a stray Request, a
\* Notification, an object with an id alone (undecodable), a blank line, a
\* line that is not valid UTF-8.
PeerLines ==
    { ObjLine(Some(i), None, Some(v), None) : i \in PeerIds, v \in ResultValues }
    \cup { ObjLine(Some(i), None, Some("null"), None) : i \in PeerIds }
    \cup { ObjLine(Some(i), None, None, Some(CustomError)) : i \in PeerIds }
    \cup { ObjLine(Some(i), None, Some("Other"), Some(NotFoundError)) : i \in PeerIds }
    \cup { ObjLine(Some(NumId(1)), Some("ping"), None, None),
           ObjLine(None, Some("notifications/progress"), None, None),
           ObjLine(Some(NumId(1)), None, None, None),
           EmptyLine, NonUtf8Line }

\* An Option<Value> member read by serde: JSON null reads as None.
NullAsNone(v) == IF v = Some("null") THEN None ELSE v

\* Response::deserialize: Option<Value> reads JSON null as None.
DeserializeResponse(line) ==
    ResponseMsg(line.id[1],
                IF line.result = Some("null") THEN None ELSE line.result,
                line.error)

\* A decoder that looks for result and error before it looks for method.
Decode_ResponseFirst(line) ==
    IF line.form # "object" THEN None
    ELSE IF line.id # None
         THEN IF line.result # None \/ line.error # None
              THEN Some(DeserializeResponse(line))
              ELSE IF line.method # None
                   THEN Some(WithParams(RequestMsg(line.id[1], line.method[1]),
                                        NullAsNone(line.params)))
                   ELSE None
         ELSE IF line.method # None
              THEN Some(WithParams(NotificationMsg(line.method[1]),
                                   NullAsNone(line.params)))
              ELSE None

\* serde_json::from_str::<Message>(trimmed), i.e. MessageVisitor::visit_map:
\* Some(message) on success, None on a decode error.
Decode(line) ==
    IF line.form # "object" THEN None
    ELSE IF line.id # None
         THEN IF line.method # None
              THEN Some(WithParams(RequestMsg(line.id[1], line.method[1]),
                                   NullAsNone(line.params)))
              ELSE IF line.result # None \/ line.error # None
                   THEN Some(DeserializeResponse(line))
                   ELSE None
         ELSE IF line.method # None
              THEN Some(WithParams(NotificationMsg(line.method[1]),
                                   NullAsNone(line.params)))
              ELSE None

\* Serialize for Message: the JSON object written for a message.  Besides
\* "type" and "jsonrpc" it has the members method and id of a Request, id of
\* a Response, method of a Notification, and each of params, result and
\* error only when the field is Some.
Encode(m) ==
    [form |-> "object",
     id |-> m.id,
     method |-> IF m.type = "Response" THEN None ELSE Some(m.method),
     params |-> IF m.type = "Response" THEN None ELSE m.params,
     result |-> IF m.type = "Response" THEN m.result ELSE None,
     error |-> IF m.type = "Response" THEN m.error ELSE None]

\* serde_json::from_value::<InitializeResult>(response): the capabilities of
\* the parsed result, None when the value does not have the expected shape.
ParseInitializeResult(v) ==
    IF v = "InitOk" THEN Some("caps") ELSE None

\* Items of the broadcast channel: Result<Message, Error>.
OkItem(m) == [ok |-> TRUE, msg |-> Some(m), err |-> ""]
ErrItem(kind) == [ok |-> FALSE, msg |-> None, err |-> kind]

\* Outcomes of transport.send: writing to the peer's stdin succeeds while
\* the peer holds its end of the pipes and may fail once it has let go.
SendOutcomes(closed) == IF closed THEN {TRUE, FALSE} ELSE {TRUE}

VARIABLES
    pipe,                \* lines written by the peer, not yet read
    peerClosed,          \* the peer closed its end of the pipes (EOF after pipe drains)
    nLines,              \* lines written by the peer so far
    reader,              \* StdioTransport reader task: "running" | "done"
    sub,                 \* items pending in the forwarder's broadcast subscription
    lagged,              \* the subscription was overrun (RecvError::Lagged pending)
    forwarder,           \* Client forwarder task: "spawned" | "running" | "done"
    queue,               \* Client.response_receiver: the mpsc queue
    request_counter,     \* Client.request_counter
    server_capabilities, \* Client.server_capabilities
    subprocess,          \* Client.subprocess: None, or Some(child) with the child's state
    client,              \* "alive" | "dropped"
    builder,             \* ClientBuilder::spawn_and_initialize: "none" | "running" | "ok" | "failed"
    call,                \* the API call in progress
    reqRes,              \* outcome of the last request() invocation
    ret,                 \* outcome of the last API call
    wire,                \* messages written by the Client to the peer's stdin
    nCalls,              \* API calls started so far
    shutdowns,           \* shutdown() calls that returned
    kills,               \* start_kill() calls made on the subprocess
    shutLog,             \* the steps the last perform_shutdown took
    dropTaskDone,        \* the task spawned by Drop has run perform_shutdown
    toolRes,             \* call_tool: what its request("tools/call") returned
    toolRet,             \* call_tool: what it returned to its caller
    outStream,           \* StdioTransport::send: chunks written to the output stream
    writerLock,          \* StdioTransport.writer: the sender holding the mutex, 0 if free
    sendPc,              \* StdioTransport::send: position of each concurrent sender
    writerBroken,        \* a write to the output stream has failed
    codecIn,             \* codec: the JSON object or the Message handed to it
    codecOut,            \* codec: the outcome of decoding
    spawnEnv,            \* spawn_and_initialize: what spawning its command will give
    stderrArgs,          \* get_stderr: the stderr file and the argument of the call
    stderrLoop,          \* get_stderr: lines read so far and the deque last_lines
    stderrRet,           \* get_stderr: what it returned
    reqPc,               \* concurrent request() calls: position and id of each caller
    counterLock,         \* request_counter: the caller holding its write lock, 0 if free
    rxLock,              \* response_receiver: the caller holding its mutex, 0 if free
    initRun,             \* initialize: two servers' results and what initialize made of each
    sdkChild,            \* the older spawn_and_initialize: the child it spawned
    mgr,                 \* MCPClientManager: its servers, its tool map and its calls
    chat                 \* ChatState: the messages, and what was made of them

\* The variables of the Client, its transport's reader and its forwarder.
clientVars == <<pipe, peerClosed, nLines, reader, sub, lagged, forwarder, queue,
                request_counter, server_capabilities, subprocess, client, builder,
                call, reqRes, ret, wire, nCalls>>
\* The variables of shutdown() and of the teardown started by Drop.
tdVars == <<shutdowns, kills, shutLog, dropTaskDone>>
\* The variables of call_tool, of concurrent senders and of the codec.
toolVars == <<toolRes, toolRet>>
sendVars == <<outStream, writerLock, sendPc, writerBroken>>
codecVars == <<codecIn, codecOut>>
\* The variables of spawning, of get_stderr and of concurrent callers of
\* request().
spawnVars == <<spawnEnv>>
stderrVars == <<stderrArgs, stderrLoop, stderrRet>>
concVars == <<reqPc, counterLock, rxLock>>
appVars == <<initRun, sdkChild, mgr, chat>>
moreVars == <<spawnVars, stderrVars, concVars, appVars>>
auxVars == <<toolVars, sendVars, codecVars, moreVars>>

vars == <<clientVars, tdVars, auxVars>>

\* No call in progress.  While a request waits, call records its caller
\* (op), its id and method, the liveness iterations done (polls), the
\* number of messages it dequeued and passed over (skipped), how many of
\* them were Responses to an earlier request (late), the number of lines
\* the peer had written when the Request was sent (since) and the number of
\* messages the queue held at that moment (backlog).
IdleCall == [op |-> "none", pc |-> "idle", id |-> 0, method |-> "",
             polls |-> 0, skipped |-> 0, late |-> 0, since |-> 0,
             backlog |-> 0]

\* No call_tool, no concurrent sender and no codec run is under way.
ToolIdle == toolRes = None /\ toolRet = None
SendIdle ==
    outStream = <<>> /\ writerLock = 0 /\ sendPc = <<>> /\ writerBroken = FALSE
CodecIdle == codecIn = None /\ codecOut = None
\* No spawn is pending, get_stderr is not called and request() has no
\* concurrent callers.
SpawnIdle == spawnEnv = None
StderrIdle == stderrArgs = None /\ stderrLoop = None /\ stderrRet = None
ConcIdle == reqPc = <<>> /\ counterLock = 0 /\ rxLock = 0
VersionIdle == initRun = None
SdkIdle == sdkChild = None
ManagerIdle == mgr = None
ChatIdle == chat = None
AppIdle == VersionIdle /\ SdkIdle /\ ManagerIdle /\ ChatIdle
MoreIdle == SpawnIdle /\ StderrIdle /\ ConcIdle /\ AppIdle

\* The state right after Client::new(transport, child) returned, called by
\* the application (by = "none") or by spawn_and_initialize (by =
\* "running"): reader task running, forwarder task spawned but not yet
\* polled, nothing sent.
ClientNew(child, by) ==
    /\ pipe = <<>>
    /\ peerClosed = FALSE
    /\ nLines = 0
    /\ reader = "running"
    /\ sub = <<>>
    /\ lagged = FALSE
    /\ forwarder = "spawned"
    /\ queue = <<>>
    /\ request_counter = 0
    /\ server_capabilities = None
    /\ builder = by
    /\ subprocess = child
    /\ client = "alive"
    /\ call = IdleCall
    /\ reqRes = None
    /\ ret = None
    /\ wire = <<>>
    /\ nCalls = 0
    /\ shutdowns = 0
    /\ kills = 0
    /\ shutLog = <<>>
    /\ dropTaskDone = FALSE

\* A Client built by the application over a transport, without a
\* subprocess, or a Client that spawn_and_initialize has built over the
\* pipes of the subprocess it spawned and is about to initialize.
Init ==
    /\ \/ ClientNew(None, "none")
       \/ ClientNew(Some(Child("running", 0)), "running")
    /\ ToolIdle /\ SendIdle /\ CodecIdle /\ MoreIdle

\* ------------------------------------------------------------ environment
\* The peer writes one line on its stdout.
PeerWrite ==
    /\ ~peerClosed
    /\ nLines < MaxLines
    /\ \E line \in PeerLines : pipe' = Append(pipe, line)
    /\ nLines' = nLines + 1
    /\ UNCHANGED <<peerClosed, reader, sub, lagged, forwarder, queue,
                   request_counter, server_capabilities, subprocess, client,
                   builder, call, reqRes, ret, wire, nCalls>>
    /\ UNCHANGED <<tdVars, auxVars>>

\* The peer closes its stdout without exiting.
PeerClose ==
    /\ ~peerClosed
    /\ peerClosed' = TRUE
    /\ UNCHANGED <<pipe, nLines, reader, sub, lagged, forwarder, queue,
                   request_counter, server_capabilities, subprocess, client,
                   builder, call, reqRes, ret, wire, nCalls>>
    /\ UNCHANGED <<tdVars, auxVars>>

\* The owned subprocess exits with some status, or is lost; its end of the
\* pipes is closed.
ProcExit ==
    /\ subprocess # None
    /\ subprocess[1].state = "running"
    /\ \/ \E s \in ExitStatuses : subprocess' = Some(Child("exited", s))
       \/ subprocess' = Some(Child("lost", 0))
    /\ peerClosed' = TRUE
    /\ UNCHANGED <<pipe, nLines, reader, sub, lagged, forwarder, queue,
                   request_counter, server_capabilities, client, builder,
                   call, reqRes, ret, wire, nCalls>>
    /\ UNCHANGED <<tdVars, auxVars>>

\* --------------------------------------------------- StdioTransport reader
\* A channel that hands the newest item to its subscriber first.
Publish_NewestFirst(item) ==
    IF forwarder = "running"
    THEN IF Len(sub) < BroadcastCapacity
         THEN sub' = <<item>> \o sub /\ UNCHANGED lagged
         ELSE sub' = <<item>> \o SubSeq(sub, 1, Len(sub) - 1) /\ lagged' = TRUE
    ELSE UNCHANGED <<sub, lagged>>

\* sender_clone.send(item): the item reaches the subscription created by
\* receive() only when that subscription exists; a subscription that holds
\* BroadcastCapacity items loses its oldest item and is marked lagged.
Publish(item) ==
    IF forwarder = "running"
    THEN IF Len(sub) < BroadcastCapacity
         THEN sub' = Append(sub, item) /\ UNCHANGED lagged
         ELSE sub' = Append(Tail(sub), item) /\ lagged' = TRUE
    ELSE UNCHANGED <<sub, lagged>>

\* A reader that takes a blank line for a line that does not decode.
ReaderItem_BlankIsMalformed(line) ==
    IF Decode(line) = None THEN Some(ErrItem("Serialization"))
    ELSE Some(OkItem(Decode(line)[1]))

\* What the reader publishes for a line it read: nothing for a blank line,
\* the decoded message, or a Serialization error.
ReaderItem(line) ==
    IF line.form = "empty" THEN None
    ELSE IF Decode(line) = None THEN Some(ErrItem("Serialization"))
    ELSE Some(OkItem(Decode(line)[1]))

\* A reader that stops at the first line it cannot decode.
ReaderReadLine_StopsOnDecodeError ==
    /\ reader = "running"
    /\ pipe # <<>>
    /\ pipe' = Tail(pipe)
    /\ IF Head(pipe).form = "nonutf8"
       THEN /\ Publish(ErrItem("Io"))
            /\ reader' = "done"
       ELSE /\ IF ReaderItem(Head(pipe)) = None
               THEN UNCHANGED <<sub, lagged>>
               ELSE Publish(ReaderItem(Head(pipe))[1])
            /\ reader' = IF ReaderItem(Head(pipe)) = Some(ErrItem("Serialization"))
                         THEN "done" ELSE reader
    /\ UNCHANGED <<peerClosed, nLines, forwarder, queue,
                   request_counter, server_capabilities, subprocess, client,
                   builder, call, reqRes, ret, wire, nCalls>>
    /\ UNCHANGED <<tdVars, auxVars>>

\* read_line returned for the next line of the pipe: Ok(n), n > 0, for a
\* line of valid UTF-8; Err(InvalidData) otherwise, which the reader
\* publishes as an I/O error before it stops.
ReaderReadLine ==
    /\ reader = "running"
    /\ pipe # <<>>
    /\ pipe' = Tail(pipe)
    /\ IF Head(pipe).form = "nonutf8"
       THEN /\ Publish(ErrItem("Io"))
            /\ reader' = "done"
       ELSE /\ IF ReaderItem(Head(pipe)) = None
               THEN UNCHANGED <<sub, lagged>>
               ELSE Publish(ReaderItem(Head(pipe))[1])
            /\ UNCHANGED reader
    /\ UNCHANGED <<peerClosed, nLines, forwarder, queue,
                   request_counter, server_capabilities, subprocess, client,
                   builder, call, reqRes, ret, wire, nCalls>>
    /\ UNCHANGED <<tdVars, auxVars>>

\* read_line returned Ok(0): publish the EOF error and stop.
ReaderEof ==
    /\ reader = "running"
    /\ pipe = <<>>
    /\ peerClosed
    /\ Publish(ErrItem("EOF"))
    /\ reader' = "done"
    /\ UNCHANGED <<pipe, peerClosed, nLines, forwarder, queue,
                   request_counter, server_capabilities, subprocess, client,
                   builder, call, reqRes, ret, wire, nCalls>>
    /\ UNCHANGED <<tdVars, auxVars>>

\* ------------------------------------------------------- Client forwarder
\* First poll of the forwarder task: transport.receive() resubscribes, the
\* new subscription sees only items published from now on.
ForwarderSubscribe ==
    /\ forwarder = "spawned"
    /\ forwarder' = "running"
    /\ sub' = <<>>
    /\ lagged' = FALSE
    /\ UNCHANGED <<pipe, peerClosed, nLines, reader, queue,
                   request_counter, server_capabilities, subprocess, client,
                   builder, call, reqRes, ret, wire, nCalls>>
    /\ UNCHANGED <<tdVars, auxVars>>

\* What the forwarder does with the next item of its stream: "forward" the
\* message into the mpsc queue, or "stop" (stream ended after a lag, an Err
\* item, or the mpsc receiver is gone).
ForwarderDecision(isLagged, item, clientState) ==
    IF isLagged THEN "stop"
    ELSE IF ~item.ok THEN "stop"
    ELSE IF clientState # "alive" THEN "stop"
    ELSE "forward"

\* stream.next() yielded in the forwarder loop.
ForwarderStep ==
    /\ forwarder = "running"
    /\ lagged \/ sub # <<>>
    /\ LET item == IF sub # <<>> THEN Head(sub) ELSE ErrItem("Lagged")
           d == ForwarderDecision(lagged, item, client)
       IN IF d = "forward"
          THEN /\ queue' = Append(queue, item.msg[1])
               /\ sub' = Tail(sub)
               /\ UNCHANGED <<forwarder, lagged>>
          ELSE /\ forwarder' = "done"
               /\ sub' = <<>>
               /\ lagged' = FALSE
               /\ UNCHANGED queue
    /\ UNCHANGED <<pipe, peerClosed, nLines, reader,
                   request_counter, server_capabilities, subprocess, client,
                   builder, call, reqRes, ret, wire, nCalls>>
    /\ UNCHANGED <<tdVars, auxVars>>

\* ------------------------------------------------------------------ Client
\* A counter that is not advanced once it has reached 1.
NextCounter_Stuck(counter) == IF counter >= 1 THEN counter ELSE counter + 1

\* *counter += 1; RequestId::Number(*counter)
NextCounter(counter) == counter + 1

\* A receive loop that returns on any Response, whatever its id.
MatchOutcome_AnyId(m, id) ==
    IF m.type = "Response"
    THEN IF m.error # None
         THEN Some(ProtocolErr(ErrorCodeFrom(m.error[1].code),
                               m.error[1].message, m.error[1].data))
         ELSE IF m.result # None
              THEN Some(OkR(m.result[1]))
              ELSE Some(ProtocolErr("InternalError", "Response missing result", None))
    ELSE None

\* A receive loop that returns on a Response to an earlier request as well.
MatchOutcome_EarlierId(m, id) ==
    IF m.type = "Response" /\ m.id[1].n <= id.n
    THEN IF m.error # None
         THEN Some(ProtocolErr(ErrorCodeFrom(m.error[1].code),
                               m.error[1].message, m.error[1].data))
         ELSE IF m.result # None
              THEN Some(OkR(m.result[1]))
              ELSE Some(ProtocolErr("InternalError", "Response missing result", None))
    ELSE None

\* A receive loop that looks at the result before the error.
MatchOutcome_ResultFirst(m, id) ==
    IF m.type = "Response" /\ m.id = Some(id)
    THEN IF m.result # None
         THEN Some(OkR(m.result[1]))
         ELSE IF m.error # None
              THEN Some(ProtocolErr(ErrorCodeFrom(m.error[1].code),
                                    m.error[1].message, m.error[1].data))
              ELSE Some(ProtocolErr("InternalError", "Response missing result", None))
    ELSE None

\* A receive loop that keeps waiting on a Response without result and error.
MatchOutcome_SkipsEmpty(m, id) ==
    IF m.type = "Response" /\ m.id = Some(id)
    THEN IF m.error # None
         THEN Some(ProtocolErr(ErrorCodeFrom(m.error[1].code),
                               m.error[1].message, m.error[1].data))
         ELSE IF m.result # None
              THEN Some(OkR(m.result[1]))
              ELSE None
    ELSE None

\* The body of the receive loop of request() for one dequeued message:
\* Some(result) when the call returns on this message, None when the loop
\* goes on waiting.
MatchOutcome(m, id) ==
    IF m.type = "Response" /\ m.id = Some(id)
    THEN IF m.error # None
         THEN Some(ProtocolErr(ErrorCodeFrom(m.error[1].code),
                               m.error[1].message, m.error[1].data))
         ELSE IF m.result # None
              THEN Some(OkR(m.result[1]))
              ELSE Some(ProtocolErr("InternalError", "Response missing result", None))
    ELSE None

\* Number of live senders of the mpsc channel: Client.response_sender for
\* as long as the Client lives, and the forwarder's tx_clone until the
\* forwarder task ends.
MpscSenders ==
    (IF client = "alive" THEN 1 ELSE 0) + (IF forwarder # "done" THEN 1 ELSE 0)

\* A liveness loop without the final timeout.
PollOutcome_NoTimeout(n, child) ==
    IF child # None /\ TryWait(child[1]) = "Err"
    THEN Some(OtherErr("Error checking process status", None))
    ELSE IF child # None /\ TryWait(child[1]) = "Exited"
    THEN Some(OtherErr("Process exited with status", Some(child[1].status)))
    ELSE None

\* A liveness loop that does not look at the subprocess.
PollOutcome_NoLiveness(n, child) ==
    IF n >= PollLimit
    THEN Some(OtherErr("Request timed out after 30 seconds", None))
    ELSE None

\* A liveness loop that gives up after half of its iterations.
PollOutcome_HalfLimit(n, child) ==
    IF child # None /\ TryWait(child[1]) = "Err"
    THEN Some(OtherErr("Error checking process status", None))
    ELSE IF child # None /\ TryWait(child[1]) = "Exited"
    THEN Some(OtherErr("Process exited with status", Some(child[1].status)))
    ELSE IF n + n >= PollLimit
    THEN Some(OtherErr("Request timed out after 30 seconds", None))
    ELSE None

\* One iteration of the liveness loop of request(), n being the number of
\* the iteration: Some(error) when the call returns, None when it sleeps
\* again.
PollOutcome(n, child) ==
    IF child # None /\ TryWait(child[1]) = "Err"
    THEN Some(OtherErr("Error checking process status", None))
    ELSE IF child # None /\ TryWait(child[1]) = "Exited"
    THEN Some(OtherErr("Process exited with status", Some(child[1].status)))
    ELSE IF n >= PollLimit
    THEN Some(OtherErr("Request timed out after 30 seconds", None))
    ELSE None

\* An initialize() that does not store the capabilities.
InitializeTail_NoStore(res, caps, sendOk) ==
    IF res.kind # "Ok"
    THEN [ret |-> res, caps |-> caps, notes |-> <<>>]
    ELSE IF ParseInitializeResult(res.value) = None
    THEN [ret |-> SerializationErr("invalid InitializeResult"),
          caps |-> caps, notes |-> <<>>]
    ELSE IF sendOk
    THEN [ret |-> OkR(res.value), caps |-> caps,
          notes |-> <<NotificationMsg("notifications/initialized")>>]
    ELSE [ret |-> IoErr("send failed"), caps |-> caps, notes |-> <<>>]

\* An initialize() that sends the initialized notification before it parses
\* the result.
InitializeTail_NotifyBeforeParse(res, caps, sendOk) ==
    IF res.kind # "Ok"
    THEN [ret |-> res, caps |-> caps, notes |-> <<>>]
    ELSE IF ParseInitializeResult(res.value) = None
    THEN [ret |-> SerializationErr("invalid InitializeResult"),
          caps |-> caps,
          notes |-> <<NotificationMsg("notifications/initialized")>>]
    ELSE IF sendOk
    THEN [ret |-> OkR(res.value),
          caps |-> Some(ParseInitializeResult(res.value)[1]),
          notes |-> <<NotificationMsg("notifications/initialized")>>]
    ELSE [ret |-> IoErr("send failed"),
          caps |-> Some(ParseInitializeResult(res.value)[1]),
          notes |-> <<>>]

\* An initialize() that sends the initialized notification whatever its
\* request returned.
InitializeTail_NotifyAlways(res, caps, sendOk) ==
    IF res.kind # "Ok"
    THEN [ret |-> res, caps |-> caps,
          notes |-> <<NotificationMsg("notifications/initialized")>>]
    ELSE IF ParseInitializeResult(res.value) = None
    THEN [ret |-> SerializationErr("invalid InitializeResult"),
          caps |-> caps, notes |-> <<>>]
    ELSE IF sendOk
    THEN [ret |-> OkR(res.value),
          caps |-> Some(ParseInitializeResult(res.value)[1]),
          notes |-> <<NotificationMsg("notifications/initialized")>>]
    ELSE [ret |-> IoErr("send failed"),
          caps |-> Some(ParseInitializeResult(res.value)[1]),
          notes |-> <<>>]

\* The part of initialize() after the request returned: parse the result,
\* store the capabilities, send the initialized notification.  sendOk is the
\* outcome of that send.
InitializeTail(res, caps, sendOk) ==
    IF res.kind # "Ok"
    THEN [ret |-> res, caps |-> caps, notes |-> <<>>]
    ELSE IF ParseInitializeResult(res.value) = None
    THEN [ret |-> SerializationErr("invalid InitializeResult"),
          caps |-> caps, notes |-> <<>>]
    ELSE IF sendOk
    THEN [ret |-> OkR(res.value),
          caps |-> Some(ParseInitializeResult(res.value)[1]),
          notes |-> <<NotificationMsg("notifications/initialized")>>]
    ELSE [ret |-> IoErr("send failed"),
          caps |-> Some(ParseInitializeResult(res.value)[1]),
          notes |-> <<>>]

\* request() returns res to its caller (the application, or initialize()),
\* which runs to its own return.  w is the wire after the request's send.
Complete(res, id, op, w, sendOk) ==
    LET out == IF op = "initialize"
               THEN InitializeTail(res, server_capabilities, sendOk)
               ELSE [ret |-> res, caps |-> server_capabilities, notes |-> <<>>]
    IN /\ call' = IdleCall
       /\ reqRes' = Some([id |-> id, res |-> res, skipped |-> call.skipped,
                          late |-> call.late, polls |-> call.polls])
       /\ ret' = Some([op |-> op, res |-> out.ret])
       /\ server_capabilities' = out.caps
       /\ wire' = w \o out.notes
       /\ builder' = IF builder = "running"
                     THEN (IF out.ret.kind = "Ok" THEN "ok" ELSE "failed")
                     ELSE builder
       /\ client' = IF builder = "running" /\ out.ret.kind # "Ok"
                    THEN "dropped" ELSE client

\* A request() that gives its id back when the send fails.
StartRequest_ReusesId(op, method) ==
    /\ client = "alive"
    /\ call.pc = "idle"
    /\ nCalls < MaxCalls
    /\ nCalls' = nCalls + 1
    /\ \E sendOk \in SendOutcomes(peerClosed) :
         LET id == NumId(NextCounter(request_counter)) IN
         IF sendOk
         THEN /\ request_counter' = NextCounter(request_counter)
              /\ wire' = Append(wire, RequestMsg(id, method))
              /\ call' = [op |-> op, pc |-> "waiting", id |-> request_counter',
                          method |-> method, polls |-> 0, skipped |-> 0,
                          late |-> 0, since |-> nLines,
                          backlog |-> Len(queue)]
              /\ reqRes' = None
              /\ ret' = None
              /\ UNCHANGED <<server_capabilities, builder, client>>
         ELSE /\ UNCHANGED request_counter
              /\ Complete(IoErr("send failed"), NextCounter(request_counter),
                          op, wire, FALSE)
    /\ UNCHANGED <<pipe, peerClosed, nLines, reader, sub, lagged, forwarder,
                   queue, subprocess>>
    /\ UNCHANGED <<tdVars, auxVars>>

\* request(): take an id, send the Request; on a send failure return at once.
StartRequest(op, method) ==
    /\ client = "alive"
    /\ call.pc = "idle"
    /\ nCalls < MaxCalls
    /\ nCalls' = nCalls + 1
    /\ request_counter' = NextCounter(request_counter)
    /\ \E sendOk \in SendOutcomes(peerClosed) :
         LET id == NumId(request_counter') IN
         IF sendOk
         THEN /\ wire' = Append(wire, RequestMsg(id, method))
              /\ call' = [op |-> op, pc |-> "waiting", id |-> request_counter',
                          method |-> method, polls |-> 0, skipped |-> 0,
                          late |-> 0, since |-> nLines,
                          backlog |-> Len(queue)]
              /\ reqRes' = None
              /\ ret' = None
              /\ UNCHANGED <<server_capabilities, builder, client>>
         ELSE Complete(IoErr("send failed"), request_counter', op, wire, FALSE)
    /\ UNCHANGED <<pipe, peerClosed, nLines, reader, sub, lagged, forwarder,
                   queue, subprocess>>
    /\ UNCHANGED <<tdVars, auxVars>>

\* The application calls request(method, params).
CallRequest ==
    /\ builder \in {"none", "ok"}
    /\ StartRequest("request", "tools/list")

\* The application calls initialize(implementation, capabilities).
CallInitialize ==
    /\ builder \in {"none", "ok"}
    /\ StartRequest("initialize", "initialize")

\* spawn_and_initialize calls initialize on the Client it just built.
BuilderInitialize ==
    /\ builder = "running"
    /\ StartRequest("initialize", "initialize")

\* The message is a Response to a request made before the one with the
\* given number.
IsLate(m, n) == m.type = "Response" /\ m.id[1].k = "num" /\ m.id[1].n < n

\* A receive loop that puts a message it passes over back into the queue,
\* behind the others.
RequestRecv_Requeues ==
    /\ call.pc = "waiting"
    /\ queue # <<>> \/ MpscSenders = 0
    /\ \E sendOk \in SendOutcomes(peerClosed) :
         IF queue # <<>>
         THEN /\ LET o == MatchOutcome(Head(queue), NumId(call.id)) IN
                 IF o # None
                 THEN /\ queue' = Tail(queue)
                      /\ Complete(o[1], call.id, call.op, wire, sendOk)
                 ELSE /\ queue' = Append(Tail(queue), Head(queue))
                      /\ call' = [call EXCEPT
                                    !.skipped = call.skipped + 1,
                                    !.late = call.late
                                      + (IF IsLate(Head(queue), call.id)
                                         THEN 1 ELSE 0)]
                      /\ UNCHANGED <<reqRes, ret, server_capabilities,
                                     wire, builder, client>>
         ELSE /\ UNCHANGED queue
              /\ Complete(ProtocolErr("InternalError",
                            "Connection closed while waiting for response", None),
                          call.id, call.op, wire, sendOk)
    /\ UNCHANGED <<pipe, peerClosed, nLines, reader, sub, lagged, forwarder,
                   request_counter, subprocess, nCalls>>
    /\ UNCHANGED <<tdVars, auxVars>>

\* rx.recv() completes inside request().
RequestRecv ==
    /\ call.pc = "waiting"
    /\ queue # <<>> \/ MpscSenders = 0
    /\ \E sendOk \in SendOutcomes(peerClosed) :
         IF queue # <<>>
         THEN /\ queue' = Tail(queue)
              /\ LET o == MatchOutcome(Head(queue), NumId(call.id)) IN
                 IF o # None
                 THEN Complete(o[1], call.id, call.op, wire, sendOk)
                 ELSE /\ call' = [call EXCEPT
                                    !.skipped = call.skipped + 1,
                                    !.late = call.late
                                      + (IF IsLate(Head(queue), call.id)
                                         THEN 1 ELSE 0)]
                      /\ UNCHANGED <<reqRes, ret, server_capabilities,
                                     wire, builder, client>>
         ELSE /\ UNCHANGED queue
              /\ Complete(ProtocolErr("InternalError",
                            "Connection closed while waiting for response", None),
                          call.id, call.op, wire, sendOk)
    /\ UNCHANGED <<pipe, peerClosed, nLines, reader, sub, lagged, forwarder,
                   request_counter, subprocess, nCalls>>
    /\ UNCHANGED <<tdVars, auxVars>>

\* The iteration the liveness loop has reached after a burst of sleeps that
\* started with `polls` iterations done.
BurstEnd(polls) ==
    IF polls + PollBurst < PollLimit THEN polls + PollBurst ELSE PollLimit

\* The 300 ms sleeps of the liveness loop elapse inside request().
RequestPoll ==
    /\ call.pc = "waiting"
    /\ LET o == PollOutcome(BurstEnd(call.polls), subprocess) IN
         IF o # None
         THEN Complete(o[1], call.id, call.op, wire, FALSE)
         ELSE /\ call' = [call EXCEPT !.polls = BurstEnd(call.polls)]
              /\ UNCHANGED <<reqRes, ret, server_capabilities, wire, builder, client>>
    /\ UNCHANGED <<pipe, peerClosed, nLines, reader, sub, lagged, forwarder,
                   queue, request_counter, subprocess, nCalls>>
    /\ UNCHANGED <<tdVars, auxVars>>

\* A notify() that takes a request id for its message.
Notify_TakesId ==
    /\ client = "alive"
    /\ builder \in {"none", "ok"}
    /\ call.pc = "idle"
    /\ nCalls < MaxCalls
    /\ nCalls' = nCalls + 1
    /\ request_counter' = NextCounter(request_counter)
    /\ \E sendOk \in SendOutcomes(peerClosed) :
         IF sendOk
         THEN /\ wire' = Append(wire, NotificationMsg("notifications/cancelled"))
              /\ ret' = Some([op |-> "notify", res |-> OkR("unit")])
         ELSE /\ UNCHANGED wire
              /\ ret' = Some([op |-> "notify", res |-> IoErr("send failed")])
    /\ UNCHANGED <<pipe, peerClosed, nLines, reader, sub, lagged, forwarder,
                   queue, server_capabilities, subprocess,
                   client, builder, call, reqRes>>
    /\ UNCHANGED <<tdVars, auxVars>>

\* The application calls notify(method, params).
Notify ==
    /\ client = "alive"
    /\ builder \in {"none", "ok"}
    /\ call.pc = "idle"
    /\ nCalls < MaxCalls
    /\ nCalls' = nCalls + 1
    /\ \E sendOk \in SendOutcomes(peerClosed) :
         IF sendOk
         THEN /\ wire' = Append(wire, NotificationMsg("notifications/cancelled"))
              /\ ret' = Some([op |-> "notify", res |-> OkR("unit")])
         ELSE /\ UNCHANGED wire
              /\ ret' = Some([op |-> "notify", res |-> IoErr("send failed")])
    /\ UNCHANGED <<pipe, peerClosed, nLines, reader, sub, lagged, forwarder,
                   queue, request_counter, server_capabilities, subprocess,
                   client, builder, call, reqRes>>
    /\ UNCHANGED <<tdVars, auxVars>>

\* ------------------------------------------------------ shutdown and Drop
\* The exit status of a child ended by start_kill (SIGKILL).
KilledStatus == 9

\* What timeout(TIMEOUT, child.wait()) finds for a running child: None when
\* the two seconds elapse first, Some(child) when the child exits by itself
\* within them.
WaitOutcomes == {None} \cup { Some(Child("exited", s)) : s \in ExitStatuses }

\* A perform_shutdown that sends the kill whatever try_wait reports.
PerformShutdown_AlwaysKills(child, w) ==
    IF child = None THEN [child |-> None, log |-> <<"close">>]
    ELSE LET waits == TryWait(child[1]) = "None"
             c1 == IF waits /\ w # None THEN w ELSE child
         IN [child |-> Some(Child("exited", KilledStatus)),
             log |-> <<"close">> \o (IF waits THEN <<"wait">> ELSE <<>>)
                     \o <<"kill", "wait">>]

\* A perform_shutdown that sends the kill before it waits for a natural exit.
PerformShutdown_KillFirst(child, w) ==
    IF child = None THEN [child |-> None, log |-> <<"close">>]
    ELSE IF TryWait(child[1]) = "None"
    THEN [child |-> Some(Child("exited", KilledStatus)),
          log |-> <<"close", "kill", "wait">>]
    ELSE [child |-> child, log |-> <<"close">>]

\* A perform_shutdown that waits for a natural exit and never kills.
PerformShutdown_NoKill(child, w) ==
    IF child = None THEN [child |-> None, log |-> <<"close">>]
    ELSE LET waits == TryWait(child[1]) = "None"
             c1 == IF waits /\ w # None THEN w ELSE child
         IN [child |-> c1,
             log |-> <<"close">> \o (IF waits THEN <<"wait">> ELSE <<>>)]

\* perform_shutdown(transport, child): the child it leaves and the steps it
\* took, in order ("close": transport.close(); "wait": a bounded
\* child.wait(); "kill": start_kill()).  w is the outcome of the first wait.
PerformShutdown(child, w) ==
    IF child = None THEN [child |-> None, log |-> <<"close">>]
    ELSE LET waits == TryWait(child[1]) = "None"
             c1 == IF waits /\ w # None THEN w ELSE child
             kill == TryWait(c1[1]) = "None"
         IN [child |-> IF kill THEN Some(Child("exited", KilledStatus)) ELSE c1,
             log |-> <<"close">> \o (IF waits THEN <<"wait">> ELSE <<>>)
                     \o (IF kill THEN <<"kill", "wait">> ELSE <<>>)]

\* Number of start_kill() calls in the steps of a perform_shutdown.
KillsIn(log) == Cardinality({ i \in DOMAIN log : log[i] = "kill" })

\* The effects of a perform_shutdown run r on the subprocess; a child that
\* ended lets go of its end of the pipes.
ApplyShutdown(r) ==
    /\ subprocess' = r.child
    /\ kills' = kills + KillsIn(r.log)
    /\ shutLog' = r.log
    /\ peerClosed' = (peerClosed \/ r.child # subprocess)

\* The application calls shutdown().
Shutdown ==
    /\ client = "alive"
    /\ builder \in {"none", "ok"}
    /\ call.pc = "idle"
    /\ shutdowns < MaxShutdowns
    /\ shutdowns' = shutdowns + 1
    /\ \E w \in WaitOutcomes : ApplyShutdown(PerformShutdown(subprocess, w))
    /\ ret' = Some([op |-> "shutdown", res |-> OkR("unit")])
    /\ UNCHANGED <<pipe, nLines, reader, sub, lagged, forwarder, queue,
                   request_counter, server_capabilities, client, builder,
                   call, reqRes, wire, nCalls, dropTaskDone>>
    /\ UNCHANGED auxVars

\* The application drops the Client: Drop takes the subprocess and spawns
\* the task that runs perform_shutdown.
Drop ==
    /\ client = "alive"
    /\ builder \in {"none", "ok"}
    /\ call.pc = "idle"
    /\ client' = "dropped"
    /\ UNCHANGED <<pipe, peerClosed, nLines, reader, sub, lagged, forwarder,
                   queue, request_counter, server_capabilities, subprocess,
                   builder, call, reqRes, ret, wire, nCalls>>
    /\ UNCHANGED <<tdVars, auxVars>>

\* The task spawned by Drop runs perform_shutdown to its end.
DropTask ==
    /\ client = "dropped"
    /\ ~dropTaskDone
    /\ dropTaskDone' = TRUE
    /\ \E w \in WaitOutcomes : ApplyShutdown(PerformShutdown(subprocess, w))
    /\ UNCHANGED <<pipe, nLines, reader, sub, lagged, forwarder, queue,
                   request_counter, server_capabilities, client, builder,
                   call, reqRes, ret, wire, nCalls, shutdowns>>
    /\ UNCHANGED auxVars

Next ==
    \/ PeerWrite
    \/ PeerClose
    \/ ProcExit
    \/ ReaderReadLine
    \/ ReaderEof
    \/ ForwarderSubscribe
    \/ ForwarderStep
    \/ CallRequest
    \/ CallInitialize
    \/ BuilderInitialize
    \/ RequestRecv
    \/ RequestPoll
    \/ Notify
    \/ DropTask

Spec == Init /\ [][Next]_vars

\* The timer of the runtime fires: a request() that waits is polled again
\* when its 300 ms sleep has elapsed.  The runtime runs the tasks spawned on
\* it: the task spawned by Drop runs.
LiveSpec == Spec /\ WF_vars(RequestPoll) /\ WF_vars(DropTask)

\* The life cycle of a Client whose peer never answers: the application
\* built it with Client::new, with or without a subprocess it owns, calls
\* request(), notify() and shutdown() on it and drops it.
TeardownInit ==
    /\ \/ ClientNew(None, "none")
       \/ ClientNew(Some(Child("running", 0)), "none")
    /\ ToolIdle /\ SendIdle /\ CodecIdle /\ MoreIdle

TeardownNext ==
    \/ PeerClose
    \/ ProcExit
    \/ ReaderEof
    \/ ForwarderSubscribe
    \/ ForwarderStep
    \/ CallRequest
    \/ RequestPoll
    \/ Notify
    \/ Shutdown
    \/ Drop
    \/ DropTask

TeardownSpec == TeardownInit /\ [][TeardownNext]_vars

\* The runtime runs the tasks spawned on it: the task spawned by Drop runs.
TeardownLiveSpec == TeardownSpec /\ WF_vars(DropTask)

\* ---------------------------------------------------------------- call_tool
\* The name of the tool called, as a sequence of symbols.
ToolName == <<"add-note">>

\* Strings are sequences of symbols.  The texts of content blocks.
TextValues == { <<"a">>, <<"b", "c">> }

\* MessageContent: a Text block with its text, or a block of another kind.
TextBlock(t) == [kind |-> "text", text |-> t]
ImageBlock == [kind |-> "image", text |-> <<>>]
ContentBlocks == { TextBlock(t) : t \in TextValues } \cup { ImageBlock }

\* The content lists of at most MaxContent blocks.
ContentLists ==
    UNION { [1..n -> ContentBlocks] : n \in 0..MaxContent }

\* The JSON value of a result: one that has the shape of CallToolResult,
\* with its isError flag and its content, or one that has another shape.
ToolJson(is_error, content) ==
    [shape |-> "CallToolResult", is_error |-> is_error, content |-> content]
OtherJson == [shape |-> "other", is_error |-> FALSE, content |-> <<>>]

\* serde_json::from_value::<CallToolResult>(response)
ParseCallToolResult(v) ==
    IF v.shape = "CallToolResult" THEN Some(v) ELSE None

\* What request("tools/call", ..) may return to call_tool.
ToolRequestResults ==
    { OkR(ToolJson(e, c)) : e \in BOOLEAN, c \in ContentLists }
    \cup { OkR(OtherJson),
           ProtocolErr("MethodNotFound", "not found", None),
           OtherErr("Request timed out after 30 seconds", None) }

\* The texts of the Text blocks of a content list, in order (filter_map).
RECURSIVE TextsOf(_)
TextsOf(content) ==
    IF content = <<>> THEN <<>>
    ELSE IF Head(content).kind = "text"
         THEN <<Head(content).text>> \o TextsOf(Tail(content))
         ELSE TextsOf(Tail(content))

\* texts.join("\n"): the texts in their order, a newline between every two
\* neighbours (computed by halves).
RECURSIVE Join(_)
Join(texts) ==
    IF texts = <<>> THEN <<>>
    ELSE IF Len(texts) = 1 THEN Head(texts)
    ELSE LET h == Len(texts) \div 2
         IN Join(SubSeq(texts, 1, h)) \o <<"\n">>
            \o Join(SubSeq(texts, h + 1, Len(texts)))

\* format!("Tool '{}' execution failed: {}", name, maybe_msg)
ToolFailedMessage(name, msg) ==
    <<"Tool '">> \o name \o <<"' execution failed: ">> \o msg

\* A call_tool that returns the parsed result whatever its isError flag.
CallToolTail_IgnoresIsError(name, res) ==
    IF res.kind # "Ok" THEN res
    ELSE IF ParseCallToolResult(res.value) = None
    THEN SerializationErr("invalid CallToolResult")
    ELSE OkR(ParseCallToolResult(res.value)[1])

\* The part of call_tool after its request returned res: parse the result
\* and turn a result with isError set into Error::Other.
CallToolTail(name, res) ==
    IF res.kind # "Ok" THEN res
    ELSE IF ParseCallToolResult(res.value) = None
    THEN SerializationErr("invalid CallToolResult")
    ELSE LET tool_result == ParseCallToolResult(res.value)[1] IN
         IF tool_result.is_error
         THEN OtherErr(ToolFailedMessage(name,
                                         Join(TextsOf(tool_result.content))),
                       None)
         ELSE OkR(tool_result)

\* call_tool is called and its request has returned some result.
ToolInit ==
    /\ ClientNew(None, "none")
    /\ SendIdle /\ CodecIdle /\ MoreIdle
    /\ toolRes \in { Some(r) : r \in ToolRequestResults }
    /\ toolRet = None

\* call_tool runs to its return.
CallTool ==
    /\ toolRes # None
    /\ toolRet = None
    /\ toolRet' = Some(CallToolTail(ToolName, toolRes[1]))
    /\ UNCHANGED <<clientVars, tdVars, toolRes, sendVars, codecVars, moreVars>>

ToolNext == CallTool

ToolSpec == ToolInit /\ [][ToolNext]_vars

\* ------------------------------------------------- StdioTransport::send
\* The callers of send; each sends one message of its own.
Senders == 1..MaxSenders

\* The chunks of the frame of sender s, in the order send writes them: the
\* JSON of its message, which write_all may hand to the stream in several
\* writes (two here), and the newline.
Chunk(s, part) == [s |-> s, part |-> part]
Frame(s) == <<Chunk(s, "json1"), Chunk(s, "json2"), Chunk(s, "nl")>>

\* Outcomes of one write or flush on the output stream: it succeeds while
\* the peer holds its end; it may fail once the peer has let go; once a
\* write has failed every later one fails.
WriteOutcomes ==
    IF writerBroken THEN {FALSE} ELSE SendOutcomes(peerClosed)

\* A send that writes without holding the mutex of the writer.
SendLock_NoMutex(s) ==
    /\ sendPc[s] = "idle"
    /\ writerLock' = s
    /\ sendPc' = [sendPc EXCEPT ![s] = "json1"]
    /\ UNCHANGED <<clientVars, tdVars, toolVars, outStream, writerBroken,
                   codecVars, moreVars>>

\* self.writer.lock().await completes for sender s: the mutex is free.
SendLock(s) ==
    /\ sendPc[s] = "idle"
    /\ writerLock = 0
    /\ writerLock' = s
    /\ sendPc' = [sendPc EXCEPT ![s] = "json1"]
    /\ UNCHANGED <<clientVars, tdVars, toolVars, outStream, writerBroken,
                   codecVars, moreVars>>

\* The position of send after it has written the given part.
AfterPart(part) ==
    CASE part = "json1" -> "json2"
      [] part = "json2" -> "nl"
      [] part = "nl"    -> "flush"

\* Sender s writes the next chunk of its frame; on an error send returns
\* Err and its guard releases the mutex.
SendWrite(s) ==
    /\ sendPc[s] \in {"json1", "json2", "nl"}
    /\ \E ok \in WriteOutcomes :
         IF ok
         THEN /\ outStream' = Append(outStream, Chunk(s, sendPc[s]))
              /\ sendPc' = [sendPc EXCEPT ![s] = AfterPart(sendPc[s])]
              /\ UNCHANGED <<writerLock, writerBroken>>
         ELSE /\ sendPc' = [sendPc EXCEPT ![s] = "err"]
              /\ writerLock' = IF writerLock = s THEN 0 ELSE writerLock
              /\ writerBroken' = TRUE
              /\ UNCHANGED outStream
    /\ UNCHANGED <<clientVars, tdVars, toolVars, codecVars, moreVars>>

\* Sender s flushes and returns, Ok or Err; its guard releases the mutex.
SendFlush(s) ==
    /\ sendPc[s] = "flush"
    /\ \E ok \in WriteOutcomes :
         /\ sendPc' = [sendPc EXCEPT ![s] = IF ok THEN "ok" ELSE "err"]
         /\ writerBroken' = (writerBroken \/ ~ok)
    /\ writerLock' = IF writerLock = s THEN 0 ELSE writerLock
    /\ UNCHANGED <<clientVars, tdVars, toolVars, outStream, codecVars, moreVars>>

\* A StdioTransport whose send is about to be called by every sender.
SendInit ==
    /\ ClientNew(None, "none")
    /\ ToolIdle /\ CodecIdle /\ MoreIdle
    /\ outStream = <<>>
    /\ writerLock = 0
    /\ sendPc = [s \in Senders |-> "idle"]
    /\ writerBroken = FALSE

SendNext ==
    \/ PeerClose
    \/ \E s \in Senders : SendLock(s)
    \/ \E s \in Senders : SendWrite(s)
    \/ \E s \in Senders : SendFlush(s)

SendSpec == SendInit /\ [][SendNext]_vars

\* -------------------------------------------------------------------- codec
\* RequestId::String(s), s being the decimal digits of n.
StrId(n) == [k |-> "str", n |-> n]

\* The ids, methods and JSON values the codec is run on.
CodecIds == { NumId(1), StrId(1) }
CodecValues == { None, Some("Other"), Some("null") }
CodecErrors == { None, Some(CustomError) }

\* The JSON objects: every combination of presence of id, method, params,
\* result and error.
CodecObjects ==
    { WithParams(ObjLine(i, m, r, e), p) :
        i \in {None} \cup { Some(x) : x \in CodecIds },
        m \in {None, Some("tools/list")},
        r \in CodecValues, e \in CodecErrors,
        p \in {None, Some("Other")} }

\* The constructible messages: every Request, Response and Notification
\* with each optional field None or Some.
CodecMessages ==
    { WithParams(RequestMsg(i, "tools/list"), p) :
        i \in CodecIds, p \in CodecValues }
    \cup { ResponseMsg(i, r, e) :
             i \in CodecIds, r \in CodecValues, e \in CodecErrors }
    \cup { WithParams(NotificationMsg("notifications/progress"), p) :
             p \in CodecValues }

\* What the codec is run on: a JSON object to decode, or a message to
\* encode and decode.
CodecInput(obj, msg) == Some([obj |-> obj, msg |-> msg])

\* A JSON object is about to be decoded, or a message to be encoded and
\* decoded.
CodecInit ==
    /\ ClientNew(None, "none")
    /\ ToolIdle /\ SendIdle /\ MoreIdle
    /\ codecIn \in { CodecInput(Some(o), None) : o \in CodecObjects }
                   \cup { CodecInput(None, Some(m)) : m \in CodecMessages }
    /\ codecOut = None

\* serde_json::from_str::<Message> runs on the object.
DecodeObject ==
    /\ codecIn # None
    /\ codecIn[1].obj # None
    /\ codecOut = None
    /\ codecOut' = Some(Decode(codecIn[1].obj[1]))
    /\ UNCHANGED <<clientVars, tdVars, toolVars, sendVars, codecIn, moreVars>>

\* serde_json::to_string(&message), then serde_json::from_str::<Message>.
RoundTrip ==
    /\ codecIn # None
    /\ codecIn[1].msg # None
    /\ codecOut = None
    /\ codecOut' = Some(Decode(Encode(codecIn[1].msg[1])))
    /\ UNCHANGED <<clientVars, tdVars, toolVars, sendVars, codecIn, moreVars>>

CodecNext ==
    \/ DecodeObject
    \/ RoundTrip

CodecSpec == CodecInit /\ [][CodecNext]_vars

\* ------------------------------------------------------ order of delivery
\* The marks of the lines, in the order the peer writes them.
Marks == <<"m1", "m2", "m3", "m4">>

\* The position of a mark in Marks.
MarkNo(t) == CHOOSE i \in DOMAIN Marks : Marks[i] = t

\* The n-th line of a peer that marks its lines: a Notification or a stray
\* Request with the mark as params, a Response (for any id) with the mark as
\* result, an object that does not decode, or a blank line.
MarkedLines(n) ==
    { WithParams(ObjLine(None, Some("notifications/progress"), None, None),
                 Some(Marks[n])),
      WithParams(ObjLine(Some(NumId(1)), Some("ping"), None, None),
                 Some(Marks[n])),
      ObjLine(Some(NumId(1)), None, None, None),
      EmptyLine }
    \cup { ObjLine(Some(i), None, Some(Marks[n]), None) : i \in PeerIds }

\* The mark a decoded message carries.
MarkOf(m) == IF m.type = "Response" THEN m.result[1] ELSE m.params[1]

\* The peer writes its next line, marked with the number of the line.
PeerWriteMarked ==
    /\ ~peerClosed
    /\ nLines < MaxMarked
    /\ \E line \in MarkedLines(nLines + 1) : pipe' = Append(pipe, line)
    /\ nLines' = nLines + 1
    /\ UNCHANGED <<peerClosed, reader, sub, lagged, forwarder, queue,
                   request_counter, server_capabilities, subprocess, client,
                   builder, call, reqRes, ret, wire, nCalls>>
    /\ UNCHANGED <<tdVars, auxVars>>

\* A Client built by the application over a transport whose peer marks its
\* lines; the application calls request().
OrderInit ==
    /\ ClientNew(None, "none")
    /\ ToolIdle /\ SendIdle /\ CodecIdle /\ MoreIdle

OrderNext ==
    \/ PeerWriteMarked
    \/ PeerClose
    \/ ReaderReadLine
    \/ ReaderEof
    \/ ForwarderSubscribe
    \/ ForwarderStep
    \/ CallRequest
    \/ RequestRecv
    \/ RequestPoll

OrderSpec == OrderInit /\ [][OrderNext]_vars

\* ---------------------------------------------------- spawn_and_initialize
\* What the operating system gives spawn_and_initialize: whether
\* cmd.spawn() succeeds and whether the child carries a stdout and a stdin
\* handle.
SpawnEnvs == [spawns : BOOLEAN, stdout : BOOLEAN, stdin : BOOLEAN]

\* A spawn_and_initialize that does not ask for the stdin handle.
SpawnError_IgnoresStdin(env) ==
    IF ~env.spawns THEN Some(IoErr("spawn failed"))
    ELSE IF ~env.stdout
    THEN Some(IoErr("No stdout available from spawned process"))
    ELSE None

\* The error on which spawn_and_initialize returns before it creates the
\* transport, None when it goes on: cmd.spawn() failed, child.stdout.take()
\* gave None, child.stdin.take() gave None, in this order.
SpawnError(env) ==
    IF ~env.spawns THEN Some(IoErr("spawn failed"))
    ELSE IF ~env.stdout
    THEN Some(IoErr("No stdout available from spawned process"))
    ELSE IF ~env.stdin
    THEN Some(IoErr("No stdin available from spawned process"))
    ELSE None

\* spawn_and_initialize has been called and is about to spawn its command:
\* there is no transport, no Client and no subprocess yet.
NoClient ==
    /\ pipe = <<>>
    /\ peerClosed = FALSE
    /\ nLines = 0
    /\ reader = "none"
    /\ sub = <<>>
    /\ lagged = FALSE
    /\ forwarder = "none"
    /\ queue = <<>>
    /\ request_counter = 0
    /\ server_capabilities = None
    /\ builder = "spawning"
    /\ subprocess = None
    /\ client = "none"
    /\ call = IdleCall
    /\ reqRes = None
    /\ ret = None
    /\ wire = <<>>
    /\ nCalls = 0
    /\ shutdowns = 0
    /\ kills = 0
    /\ shutLog = <<>>
    /\ dropTaskDone = FALSE

SpawnInit ==
    /\ NoClient
    /\ spawnEnv \in { Some(e) : e \in SpawnEnvs }
    /\ StderrIdle /\ ConcIdle /\ AppIdle
    /\ ToolIdle /\ SendIdle /\ CodecIdle

\* spawn_and_initialize spawns the command and takes the handles; on an
\* error it returns it, otherwise it creates the StdioTransport (whose
\* reader task starts) and the Client (whose forwarder task is spawned).
Spawn ==
    /\ builder = "spawning"
    /\ LET e == SpawnError(spawnEnv[1]) IN
       IF e # None
       THEN /\ builder' = "failed"
            /\ ret' = Some([op |-> "spawn_and_initialize", res |-> e[1]])
            /\ UNCHANGED <<reader, forwarder, client, subprocess>>
       ELSE /\ builder' = "running"
            /\ reader' = "running"
            /\ forwarder' = "spawned"
            /\ client' = "alive"
            /\ subprocess' = Some(Child("running", 0))
            /\ UNCHANGED ret
    /\ UNCHANGED <<pipe, peerClosed, nLines, sub, lagged, queue,
                   request_counter, server_capabilities, call, reqRes, wire,
                   nCalls>>
    /\ UNCHANGED <<tdVars, auxVars>>

\* The subprocess and its pipes exist.
Spawned == client # "none"

\* The spawned child writes a line on its stdout, or closes it.
ChildWrite == Spawned /\ PeerWrite
ChildClose == Spawned /\ PeerClose

SpawnNext ==
    \/ Spawn
    \/ ChildWrite
    \/ ChildClose
    \/ ProcExit
    \/ ReaderReadLine
    \/ ReaderEof
    \/ ForwarderSubscribe
    \/ ForwarderStep
    \/ BuilderInitialize
    \/ RequestRecv
    \/ RequestPoll
    \/ DropTask

SpawnSpec == SpawnInit /\ [][SpawnNext]_vars

\* --------------------------------------------------------------- get_stderr
\* The i-th line of the stderr file, a string that names its number.
StderrLine(i) == <<ToString(i)>>

\* The lines of a stderr file of k lines, as lines_stream yields them.
FileOfLen(k) == [i \in 1..k |-> StderrLine(i)]

\* The stderr files get_stderr is called with: no file, short files, and
\* files about as long as the default tail.
StderrFiles ==
    {None} \cup { Some(FileOfLen(k)) :
                    k \in (0..MaxStderrLines) \cup {DefaultTail, DefaultTail + 1} }

\* The arguments get_stderr is called with.
TailArgs ==
    {None} \cup { Some(n) : n \in (0..(MaxStderrLines + 1)) \cup {DefaultTail} }

\* tail_lines.unwrap_or(100)
LineCount(tail_lines) ==
    IF tail_lines = None THEN DefaultTail ELSE tail_lines[1]

\* One iteration of the loop of get_stderr: when the deque holds line_count
\* lines or more its front is popped (pop_front on an empty deque does
\* nothing), then the line is pushed at the back.
TailStep(last_lines, line, line_count) ==
    LET popped == IF Len(last_lines) >= line_count /\ last_lines # <<>>
                  THEN Tail(last_lines) ELSE last_lines
    IN Append(popped, line)

\* get_stderr is about to be called on a Client.
StderrInit ==
    /\ ClientNew(None, "none")
    /\ ToolIdle /\ SendIdle /\ CodecIdle
    /\ SpawnIdle /\ ConcIdle /\ AppIdle
    /\ stderrArgs \in { Some([file |-> f, tail_lines |-> n]) :
                          f \in StderrFiles, n \in TailArgs }
    /\ stderrLoop = None
    /\ stderrRet = None

\* get_stderr is called: without a stderr file it returns the error, with
\* one it opens the file and creates the empty deque.
GetStderrOpen ==
    /\ stderrArgs # None
    /\ stderrLoop = None
    /\ stderrRet = None
    /\ IF stderrArgs[1].file = None
       THEN /\ stderrRet' = Some(OtherErr("No stderr file available", None))
            /\ UNCHANGED stderrLoop
       ELSE /\ stderrLoop' = Some([read |-> 0, last_lines |-> <<>>])
            /\ UNCHANGED stderrRet
    /\ UNCHANGED <<clientVars, tdVars, toolVars, sendVars, codecVars,
                   spawnVars, stderrArgs, concVars, appVars>>

\* lines_stream.next_line() yields the next line of the file.
GetStderrLine ==
    /\ stderrLoop # None
    /\ stderrRet = None
    /\ stderrLoop[1].read < Len(stderrArgs[1].file[1])
    /\ stderrLoop' =
         Some([read |-> stderrLoop[1].read + 1,
               last_lines |->
                 TailStep(stderrLoop[1].last_lines,
                          stderrArgs[1].file[1][stderrLoop[1].read + 1],
                          LineCount(stderrArgs[1].tail_lines))])
    /\ UNCHANGED <<clientVars, tdVars, toolVars, sendVars, codecVars,
                   spawnVars, stderrArgs, stderrRet, concVars, appVars>>

\* lines_stream.next_line() yields None: get_stderr joins the deque and
\* returns.
GetStderrReturn ==
    /\ stderrLoop # None
    /\ stderrRet = None
    /\ stderrLoop[1].read = Len(stderrArgs[1].file[1])
    /\ stderrRet' = Some(OkR(Join(stderrLoop[1].last_lines)))
    /\ UNCHANGED <<clientVars, tdVars, toolVars, sendVars, codecVars,
                   spawnVars, stderrArgs, stderrLoop, concVars, appVars>>

StderrNext ==
    \/ GetStderrOpen
    \/ GetStderrLine
    \/ GetStderrReturn

StderrSpec == StderrInit /\ [][StderrNext]_vars

\* ------------------------------------------- concurrent callers of request()
\* The tasks that call request() on the same Client (through a shared
\* reference); each makes one call.
Callers == 1..MaxCallers

\* The position of a caller inside request(): "idle" (not called yet, or
\* waiting for the write lock of the counter), "send" (it holds the lock
\* and has taken its id), "lockrx" (its Request is sent, it waits for the
\* mutex of the receiver), "waiting" (it holds both and receives),
\* "returned", with the id it took and the result it returned.
CallerAt(pc, id, res) == [pc |-> pc, id |-> id, res |-> res]

\* A request() whose counter guard is released as soon as the id is taken.
ReqLockCounter_GuardReleased(c) ==
    /\ reqPc[c].pc = "idle"
    /\ request_counter' = NextCounter(request_counter)
    /\ reqPc' = [reqPc EXCEPT ![c] = CallerAt("send", request_counter', None)]
    /\ UNCHANGED counterLock
    /\ UNCHANGED <<pipe, peerClosed, nLines, reader, sub, lagged, forwarder,
                   queue, server_capabilities, subprocess, client, builder,
                   call, reqRes, ret, wire, nCalls>>
    /\ UNCHANGED <<tdVars, toolVars, sendVars, codecVars, spawnVars,
                   stderrVars, rxLock, appVars>>

\* self.request_counter.write().await completes for caller c: the lock is
\* free.  The caller increments the counter and takes its id; the guard
\* lives until request() returns.
ReqLockCounter(c) ==
    /\ reqPc[c].pc = "idle"
    /\ counterLock = 0
    /\ counterLock' = c
    /\ request_counter' = NextCounter(request_counter)
    /\ reqPc' = [reqPc EXCEPT ![c] = CallerAt("send", request_counter', None)]
    /\ UNCHANGED <<pipe, peerClosed, nLines, reader, sub, lagged, forwarder,
                   queue, server_capabilities, subprocess, client, builder,
                   call, reqRes, ret, wire, nCalls>>
    /\ UNCHANGED <<tdVars, toolVars, sendVars, codecVars, spawnVars,
                   stderrVars, rxLock, appVars>>

\* Caller c returns res: its guards are dropped.
ReqReturn(c, res) ==
    /\ reqPc' = [reqPc EXCEPT ![c] = CallerAt("returned", reqPc[c].id, Some(res))]
    /\ counterLock' = IF counterLock = c THEN 0 ELSE counterLock
    /\ rxLock' = IF rxLock = c THEN 0 ELSE rxLock

\* self.transport.send(Message::Request(request)).await? of caller c.
ReqSend(c) ==
    /\ reqPc[c].pc = "send"
    /\ \E sendOk \in SendOutcomes(peerClosed) :
         IF sendOk
         THEN /\ wire' = Append(wire, RequestMsg(NumId(reqPc[c].id), "tools/list"))
              /\ reqPc' = [reqPc EXCEPT ![c] = CallerAt("lockrx", reqPc[c].id, None)]
              /\ UNCHANGED <<counterLock, rxLock>>
         ELSE /\ UNCHANGED wire
              /\ ReqReturn(c, IoErr("send failed"))
    /\ UNCHANGED <<pipe, peerClosed, nLines, reader, sub, lagged, forwarder,
                   queue, request_counter, server_capabilities, subprocess,
                   client, builder, call, reqRes, ret, nCalls>>
    /\ UNCHANGED <<tdVars, toolVars, sendVars, codecVars, spawnVars, stderrVars,
                   appVars>>

\* self.response_receiver.lock().await completes for caller c.
ReqLockRx(c) ==
    /\ reqPc[c].pc = "lockrx"
    /\ rxLock = 0
    /\ rxLock' = c
    /\ reqPc' = [reqPc EXCEPT ![c] = CallerAt("waiting", reqPc[c].id, None)]
    /\ UNCHANGED clientVars
    /\ UNCHANGED <<tdVars, toolVars, sendVars, codecVars, spawnVars,
                   stderrVars, counterLock, appVars>>

\* rx.recv() yields a message to caller c.
ReqRecv(c) ==
    /\ reqPc[c].pc = "waiting"
    /\ queue # <<>> \/ MpscSenders = 0
    /\ IF queue # <<>>
       THEN /\ queue' = Tail(queue)
            /\ LET o == MatchOutcome(Head(queue), NumId(reqPc[c].id)) IN
               IF o # None
               THEN ReqReturn(c, o[1])
               ELSE UNCHANGED <<reqPc, counterLock, rxLock>>
       ELSE /\ UNCHANGED queue
            /\ ReqReturn(c, ProtocolErr("InternalError",
                              "Connection closed while waiting for response", None))
    /\ UNCHANGED <<pipe, peerClosed, nLines, reader, sub, lagged, forwarder,
                   request_counter, server_capabilities, subprocess, client,
                   builder, call, reqRes, ret, wire, nCalls>>
    /\ UNCHANGED <<tdVars, toolVars, sendVars, codecVars, spawnVars, stderrVars,
                   appVars>>

\* The liveness loop of caller c runs to its end.
ReqTimeout(c) ==
    /\ reqPc[c].pc = "waiting"
    /\ ReqReturn(c, PollOutcome(PollLimit, subprocess)[1])
    /\ UNCHANGED clientVars
    /\ UNCHANGED <<tdVars, toolVars, sendVars, codecVars, spawnVars, stderrVars,
                   appVars>>

\* The peer answers one of the Requests it has received, with a result.
PeerAnswer ==
    /\ ~peerClosed
    /\ nLines < MaxLines
    /\ \E i \in DOMAIN wire :
         /\ wire[i].type = "Request"
         /\ pipe' = Append(pipe, ObjLine(wire[i].id, None, Some("Other"), None))
    /\ nLines' = nLines + 1
    /\ UNCHANGED <<peerClosed, reader, sub, lagged, forwarder, queue,
                   request_counter, server_capabilities, subprocess, client,
                   builder, call, reqRes, ret, wire, nCalls>>
    /\ UNCHANGED <<tdVars, auxVars>>

\* A Client shared by tasks that are about to call request() on it.
ConcInit ==
    /\ ClientNew(None, "none")
    /\ ToolIdle /\ SendIdle /\ CodecIdle
    /\ SpawnIdle /\ StderrIdle /\ AppIdle
    /\ reqPc = [c \in Callers |-> CallerAt("idle", 0, None)]
    /\ counterLock = 0
    /\ rxLock = 0

ConcNext ==
    \/ PeerAnswer
    \/ PeerClose
    \/ ReaderReadLine
    \/ ReaderEof
    \/ ForwarderSubscribe
    \/ ForwarderStep
    \/ \E c \in Callers : ReqLockCounter(c)
    \/ \E c \in Callers : ReqSend(c)
    \/ \E c \in Callers : ReqLockRx(c)
    \/ \E c \in Callers : ReqRecv(c)
    \/ \E c \in Callers : ReqTimeout(c)

ConcSpec == ConcInit /\ [][ConcNext]_vars

\* ------------------------------------------------- a subscriber that lags
\* The number of lines of a burst that overruns the broadcast channel.
LagLines == BroadcastCapacity + MaxOverrun

\* The peer writes a burst of notifications, each once the reader has taken
\* the one before.
PeerFlood ==
    /\ ~peerClosed
    /\ pipe = <<>>
    /\ nLines < LagLines
    /\ pipe' = <<ObjLine(None, Some("notifications/progress"), None, None)>>
    /\ nLines' = nLines + 1
    /\ UNCHANGED <<peerClosed, reader, sub, lagged, forwarder, queue,
                   request_counter, server_capabilities, subprocess, client,
                   builder, call, reqRes, ret, wire, nCalls>>
    /\ UNCHANGED <<tdVars, auxVars>>

\* The subscriber of receive() takes its subscription before the burst.
SubscribeBeforeBurst == nLines = 0 /\ ForwarderSubscribe

\* The subscriber is polled again only once the reader has published as
\* many items as the channel holds: it has fallen behind.
PollBehind == Len(sub) >= BroadcastCapacity /\ ForwarderStep

\* The subscriber is polled after it lagged, or after the burst.
PollLate == (lagged \/ nLines = LagLines) /\ ForwarderStep

LagInit ==
    /\ ClientNew(None, "none")
    /\ ToolIdle /\ SendIdle /\ CodecIdle /\ MoreIdle

LagNext ==
    \/ PeerFlood
    \/ ReaderReadLine
    \/ SubscribeBeforeBurst
    \/ PollBehind
    \/ PollLate

LagSpec == LagInit /\ [][LagNext]_vars

\* ---------------------------------------------- initialize and the version
\* crate::LATEST_PROTOCOL_VERSION and crate::SUPPORTED_PROTOCOL_VERSIONS.
LATEST_PROTOCOL_VERSION == "2024-11-05"
SUPPORTED_PROTOCOL_VERSIONS == <<LATEST_PROTOCOL_VERSION, "2024-10-07">>

\* The protocol versions a server may declare: the supported ones and one
\* the SDK does not know.
ServerVersions == {"2024-11-05", "2024-10-07", "1999-01-01"}

\* The JSON object a server returns for "initialize": each member is
\* present or absent.
InitializeResultValues ==
    [protocolVersion : {None} \cup { Some(v) : v \in ServerVersions },
     capabilities : {None, Some("caps-a"), Some("caps-b")},
     serverInfo : {None, Some("info")}]

\* The params of the "initialize" request.
InitializeParams ==
    [clientInfo |-> "implementation", capabilities |-> "capabilities",
     protocolVersion |-> LATEST_PROTOCOL_VERSION]

\* A from_value that accepts only the protocol versions the SDK supports.
FromValueInitializeResult_Validates(v) ==
    IF v.protocolVersion = None \/ v.capabilities = None \/ v.serverInfo = None
    THEN None
    ELSE IF \E i \in DOMAIN SUPPORTED_PROTOCOL_VERSIONS :
              SUPPORTED_PROTOCOL_VERSIONS[i] = v.protocolVersion[1]
    THEN Some([protocol_version |-> v.protocolVersion[1],
               capabilities |-> v.capabilities[1],
               server_info |-> v.serverInfo[1]])
    ELSE None

\* serde_json::from_value::<InitializeResult>(response): the typed result
\* when the three members are present, None otherwise.
FromValueInitializeResult(v) ==
    IF v.protocolVersion = None \/ v.capabilities = None \/ v.serverInfo = None
    THEN None
    ELSE Some([protocol_version |-> v.protocolVersion[1],
               capabilities |-> v.capabilities[1],
               server_info |-> v.serverInfo[1]])

\* initialize() on a fresh Client whose request returns Ok(v): the params
\* it sent, what it returns, the capabilities it stored and whether it sent
\* the initialized notification.  sendOk is the outcome of that send.
InitializeRun(v, sendOk) ==
    LET parsed == FromValueInitializeResult(v) IN
    IF parsed = None
    THEN [params |-> InitializeParams, kind |-> "Serialization",
          value |-> None, caps |-> None, notified |-> FALSE]
    ELSE IF sendOk
    THEN [params |-> InitializeParams, kind |-> "Ok",
          value |-> parsed, caps |-> Some(parsed[1].capabilities),
          notified |-> TRUE]
    ELSE [params |-> InitializeParams, kind |-> "Io",
          value |-> None, caps |-> Some(parsed[1].capabilities),
          notified |-> FALSE]

\* Two servers whose initialize results declare a protocol version each and
\* differ at most in it, each about to be initialized by a fresh Client.
VersionInit ==
    /\ ClientNew(None, "none")
    /\ ToolIdle /\ SendIdle /\ CodecIdle
    /\ SpawnIdle /\ StderrIdle /\ ConcIdle
    /\ SdkIdle /\ ManagerIdle /\ ChatIdle
    /\ initRun \in { Some([a |-> x, b |-> [x EXCEPT !.protocolVersion = pv],
                           sendOk |-> ok, outA |-> None, outB |-> None]) :
                       x \in { y \in InitializeResultValues :
                                  y.protocolVersion # None },
                       pv \in { Some(v) : v \in ServerVersions },
                       ok \in BOOLEAN }

\* initialize() runs against the first server.
InitializeA ==
    /\ initRun # None
    /\ initRun[1].outA = None
    /\ initRun' = Some([initRun[1] EXCEPT
                          !.outA = Some(InitializeRun(initRun[1].a,
                                                      initRun[1].sendOk))])
    /\ UNCHANGED <<clientVars, tdVars, toolVars, sendVars, codecVars,
                   spawnVars, stderrVars, concVars, sdkChild, mgr, chat>>

\* initialize() runs against the second server.
InitializeB ==
    /\ initRun # None
    /\ initRun[1].outB = None
    /\ initRun' = Some([initRun[1] EXCEPT
                          !.outB = Some(InitializeRun(initRun[1].b,
                                                      initRun[1].sendOk))])
    /\ UNCHANGED <<clientVars, tdVars, toolVars, sendVars, codecVars,
                   spawnVars, stderrVars, concVars, sdkChild, mgr, chat>>

VersionNext ==
    \/ InitializeA
    \/ InitializeB

VersionSpec == VersionInit /\ [][VersionNext]_vars

\* ------------------------------------- the older spawn_and_initialize
\* The runtime runs the tasks spawned on it: after the Client built by
\* spawn_and_initialize is dropped, the task spawned by its Drop runs.
SpawnLiveSpec == SpawnSpec /\ WF_vars(RequestPoll) /\ WF_vars(DropTask)

SdkSpawnInit ==
    /\ NoClient
    /\ spawnEnv \in { Some(e) : e \in SpawnEnvs }
    /\ StderrIdle /\ ConcIdle /\ AppIdle
    /\ ToolIdle /\ SendIdle /\ CodecIdle

\* The older spawn_and_initialize spawns the command and takes the handles;
\* on an error it returns it, otherwise it creates the StdioTransport and
\* the Client, which is not given the child: `child` stays a local.
SdkSpawn ==
    /\ builder = "spawning"
    /\ sdkChild = None
    /\ sdkChild' = IF spawnEnv[1].spawns
                   THEN Some(Child("running", 0)) ELSE None
    /\ LET e == SpawnError(spawnEnv[1]) IN
       IF e # None
       THEN /\ builder' = "failed"
            /\ ret' = Some([op |-> "spawn_and_initialize", res |-> e[1]])
            /\ UNCHANGED <<reader, forwarder, client>>
       ELSE /\ builder' = "running"
            /\ reader' = "running"
            /\ forwarder' = "spawned"
            /\ client' = "alive"
            /\ UNCHANGED ret
    /\ UNCHANGED <<pipe, peerClosed, nLines, sub, lagged, queue,
                   request_counter, server_capabilities, subprocess, call,
                   reqRes, wire, nCalls>>
    /\ UNCHANGED <<tdVars, toolVars, sendVars, codecVars, spawnVars,
                   stderrVars, concVars, initRun, mgr, chat>>

\* The child exits by itself; its end of the pipes is closed.
SdkChildExit ==
    /\ sdkChild # None
    /\ sdkChild[1].state = "running"
    /\ \E s \in ExitStatuses : sdkChild' = Some(Child("exited", s))
    /\ peerClosed' = TRUE
    /\ UNCHANGED <<pipe, nLines, reader, sub, lagged, forwarder, queue,
                   request_counter, server_capabilities, subprocess, client,
                   builder, call, reqRes, ret, wire, nCalls>>
    /\ UNCHANGED <<tdVars, toolVars, sendVars, codecVars, spawnVars,
                   stderrVars, concVars, initRun, mgr, chat>>

SdkSpawnNext ==
    \/ SdkSpawn
    \/ ChildWrite
    \/ ChildClose
    \/ SdkChildExit
    \/ ReaderReadLine
    \/ ReaderEof
    \/ ForwarderSubscribe
    \/ ForwarderStep
    \/ BuilderInitialize
    \/ RequestRecv
    \/ RequestPoll

SdkSpawnSpec == SdkSpawnInit /\ [][SdkSpawnNext]_vars

\* The runtime runs every task of the program and its timer fires; nothing
\* is assumed of the child.
SdkSpawnLiveSpec ==
    /\ SdkSpawnSpec
    /\ WF_vars(SdkSpawn)
    /\ WF_vars(BuilderInitialize)
    /\ WF_vars(ReaderReadLine)
    /\ WF_vars(ReaderEof)
    /\ WF_vars(ForwarderSubscribe)
    /\ WF_vars(ForwarderStep)
    /\ WF_vars(RequestRecv)
    /\ WF_vars(RequestPoll)

\* ------------------------------------------------------ MCPClientManager
\* The names under which servers are configured, and the names of tools; one
\* server is configured under a name that is also the name of a tool.
ServerNames == {"alpha", "search"}
ToolNames == {"search", "fetch", "add-note"}

\* What a server makes of "tools/list": an error, a result without a
\* "tools" array, or a result listing tools by name.
ToolListings ==
    { [kind |-> "Err", tools |-> {}], [kind |-> "NoTools", tools |-> {}] }
    \cup { [kind |-> "Tools", tools |-> S] : S \in SUBSET ToolNames }

\* tool_mapping with the entries of a "tools/list" result inserted: inside
\* the loop over the tools `name` is the tool's name, so the entry is
\* (name, name).
InsertTools(tool_mapping, name, listing) ==
    [t \in ToolNames |->
        IF listing.kind = "Tools" /\ t \in listing.tools
        THEN Some(<<t, t>>) ELSE tool_mapping[t]]

\* MCPClientManager::new is called with two configured servers.
ManagerInit ==
    /\ ClientNew(None, "none")
    /\ ToolIdle /\ SendIdle /\ CodecIdle
    /\ SpawnIdle /\ StderrIdle /\ ConcIdle
    /\ VersionIdle /\ SdkIdle /\ ChatIdle
    /\ mgr \in { Some([configs |-> c, state |-> "new", clients |-> {},
                       tool_mapping |-> [t \in ToolNames |-> None],
                       last |-> None]) :
                   c \in [ServerNames -> ToolListings] }

\* One round of the loop of MCPClientManager::new, for a configured server
\* not yet visited (a HashMap is iterated in no particular order): its
\* client is built and asked for its tools; an error ends new, otherwise
\* the tools are entered and the client is stored; after the last server
\* the manager is returned.
ManagerNewServer ==
    /\ mgr # None
    /\ mgr[1].state = "new"
    /\ \E name \in ServerNames \ mgr[1].clients :
         LET listing == mgr[1].configs[name] IN
         IF listing.kind = "Err"
         THEN mgr' = Some([mgr[1] EXCEPT !.state = "failed"])
         ELSE mgr' = Some([mgr[1] EXCEPT
                 !.tool_mapping = InsertTools(mgr[1].tool_mapping, name, listing),
                 !.clients = mgr[1].clients \cup {name},
                 !.state = IF mgr[1].clients \cup {name} = ServerNames
                           THEN "ready" ELSE "new"])
    /\ UNCHANGED <<clientVars, tdVars, toolVars, sendVars, codecVars,
                   spawnVars, stderrVars, concVars, initRun, sdkChild, chat>>

\* MCPClientManager::call_tool(tool_name, arguments): an error when the tool
\* has no entry or the entry's server has no client, otherwise call_tool on
\* that server's client with the entry's tool id.
ManagerCallOutcome(m, tool_name) ==
    IF tool_name \notin ToolNames \/ m.tool_mapping[tool_name] = None
    THEN [kind |-> "ToolNotFound", server |-> "", tool |-> ""]
    ELSE LET server_name == m.tool_mapping[tool_name][1][1]
             tool_id == m.tool_mapping[tool_name][1][2]
         IN IF server_name \notin m.clients
            THEN [kind |-> "ServerNotFound", server |-> "", tool |-> ""]
            ELSE [kind |-> "Sent", server |-> server_name, tool |-> tool_id]

\* The application calls call_tool on the manager, with the name of a tool
\* or with a name that is nobody's tool.
ManagerCallTool ==
    /\ mgr # None
    /\ mgr[1].state = "ready"
    /\ \E tool_name \in ToolNames \cup {"unknown"} :
         mgr' = Some([mgr[1] EXCEPT
                        !.last = Some([tool_name |-> tool_name,
                                       out |-> ManagerCallOutcome(mgr[1], tool_name)])])
    /\ UNCHANGED <<clientVars, tdVars, toolVars, sendVars, codecVars,
                   spawnVars, stderrVars, concVars, initRun, sdkChild, chat>>

ManagerNext ==
    \/ ManagerNewServer
    \/ ManagerCallTool

ManagerSpec == ManagerInit /\ [][ManagerNext]_vars

\* ------------------------------------------------------------ ChatState
\* Strings are sequences of characters, so that format! and splitn act on
\* them as they do in the code.
Bar == "|"

\* The tool names and the message texts the application passes in; a text
\* may be empty and may contain '|'.
ChatToolNames == { <<"f">>, <<"g", "h">> }
ChatTexts == { <<>>, <<"r">>, <<"|">>, <<"a", "|", "b">> }

\* format!("{}|{}", tool_name, content)
FormatToolContent(tool_name, content) == tool_name \o <<Bar>> \o content

\* content.splitn(2, '|'): the text before the first '|' and the text after
\* it, or the whole text when it has no '|'.
Splitn2(content) ==
    LET bars == { i \in 1..Len(content) : content[i] = Bar } IN
    IF bars = {} THEN << content >>
    ELSE LET i == CHOOSE k \in bars : \A j \in bars : k <= j
         IN << SubSeq(content, 1, i - 1), SubSeq(content, i + 1, Len(content)) >>

\* The closure of to_request_messages: the request message made of one
\* stored (role, content); for role "tool" the content is split.next(), the
\* first part of the split.
RequestMessageOf(m) ==
    CASE m.role = "system" -> [kind |-> "System", content |-> m.content]
      [] m.role = "user" -> [kind |-> "User", content |-> m.content]
      [] m.role = "assistant" -> [kind |-> "Assistant", content |-> m.content]
      [] m.role = "tool" ->
           LET split == Splitn2(m.content)
               tcontent == split[1]
           IN [kind |-> "Tool", content |-> tcontent]
      [] OTHER -> [kind |-> "panic", content |-> <<>>]

\* ChatState::to_request_messages: messages.iter().map(..).collect()
ToRequestMessagesOf(messages) ==
    [i \in 1..Len(messages) |-> RequestMessageOf(messages[i])]

\* ChatState::new: no messages.  `added` is the record of the calls made
\* since (role, tool name, text), `request` the value to_request_messages
\* returned last.
ChatInit ==
    /\ ClientNew(None, "none")
    /\ ToolIdle /\ SendIdle /\ CodecIdle
    /\ SpawnIdle /\ StderrIdle /\ ConcIdle
    /\ VersionIdle /\ SdkIdle /\ ManagerIdle
    /\ chat = Some([messages |-> <<>>, added |-> <<>>, request |-> None])

\* messages.push((role, content)): the ChatState after the push.
ChatPush(st, role, tool_name, text, content) ==
    [st EXCEPT
       !.messages = Append(@, [role |-> role, content |-> content]),
       !.added = Append(@, [role |-> role, tool_name |-> tool_name,
                            text |-> text])]

\* ChatState::add_system_message(content)
AddSystemMessage ==
    /\ chat # None
    /\ Len(chat[1].messages) < MaxMessages
    /\ \E content \in ChatTexts :
         chat' = Some(ChatPush(chat[1], "system", <<>>, content, content))
    /\ UNCHANGED <<clientVars, tdVars, toolVars, sendVars, codecVars,
                   spawnVars, stderrVars, concVars, initRun, sdkChild, mgr>>

\* ChatState::add_user_message(content)
AddUserMessage ==
    /\ chat # None
    /\ Len(chat[1].messages) < MaxMessages
    /\ \E content \in ChatTexts :
         chat' = Some(ChatPush(chat[1], "user", <<>>, content, content))
    /\ UNCHANGED <<clientVars, tdVars, toolVars, sendVars, codecVars,
                   spawnVars, stderrVars, concVars, initRun, sdkChild, mgr>>

\* ChatState::add_assistant_message(content)
AddAssistantMessage ==
    /\ chat # None
    /\ Len(chat[1].messages) < MaxMessages
    /\ \E content \in ChatTexts :
         chat' = Some(ChatPush(chat[1], "assistant", <<>>, content, content))
    /\ UNCHANGED <<clientVars, tdVars, toolVars, sendVars, codecVars,
                   spawnVars, stderrVars, concVars, initRun, sdkChild, mgr>>

\* ChatState::add_tool_message(tool_name, content)
AddToolMessage ==
    /\ chat # None
    /\ Len(chat[1].messages) < MaxMessages
    /\ \E tool_name \in ChatToolNames, content \in ChatTexts :
         chat' = Some(ChatPush(chat[1], "tool", tool_name, content,
                               FormatToolContent(tool_name, content)))
    /\ UNCHANGED <<clientVars, tdVars, toolVars, sendVars, codecVars,
                   spawnVars, stderrVars, concVars, initRun, sdkChild, mgr>>

\* ChatState::to_request_messages()
ToRequestMessages ==
    /\ chat # None
    /\ chat' = Some([chat[1] EXCEPT
                 !.request = Some(ToRequestMessagesOf(chat[1].messages))])
    /\ UNCHANGED <<clientVars, tdVars, toolVars, sendVars, codecVars,
                   spawnVars, stderrVars, concVars, initRun, sdkChild, mgr>>

ChatNext ==
    \/ AddSystemMessage
    \/ AddUserMessage
    \/ AddAssistantMessage
    \/ AddToolMessage
    \/ ToRequestMessages

ChatSpec == ChatInit /\ [][ChatNext]_vars

\* ------------------------------------------------------------ properties
\* The message at the head of the mpsc queue is the Response carrying the id
\* of the waiting request.
HeadMatches ==
    /\ queue # <<>>
    /\ Head(queue).type = "Response"
    /\ Head(queue).id = Some(NumId(call.id))

\* This step dequeues the head of the mpsc queue.
Dequeues == queue # <<>> /\ queue' = Tail(queue)

\* request() returns in this step.
Returns == reqRes' # None /\ reqRes' # reqRes

\* C1: request() returns Ok(v) only in a step that takes from the queue a
\* Response whose id is the id of the call and whose result is v; a step
\* that takes any other message (a Response with another id, a
\* Notification, a Request) leaves the call waiting.
C1_OkOnlyOnMatchingResponse ==
    [][ /\ (Returns /\ reqRes'[1].res.kind = "Ok")
            => /\ call.pc = "waiting"
               /\ HeadMatches
               /\ Dequeues
               /\ Head(queue).result = Some(reqRes'[1].res.value)
               /\ reqRes'[1].id = call.id
        /\ (call.pc = "waiting" /\ Dequeues /\ ~HeadMatches)
            => /\ call'.pc = "waiting"
               /\ call'.id = call.id
               /\ reqRes' = None ]_vars

\* C1 witness: a request returned Ok after it had passed over another message.
C1_Witness ==
    /\ reqRes # None
    /\ reqRes[1].res.kind = "Ok"
    /\ reqRes[1].skipped >= 1

\* The ids of the Requests on the wire, in the order they were sent.
RECURSIVE WireIds(_)
WireIds(w) ==
    IF w = <<>> THEN <<>>
    ELSE IF Head(w).type = "Request"
         THEN <<Head(w).id[1]>> \o WireIds(Tail(w))
         ELSE WireIds(Tail(w))

\* C2: every request() call takes the id one above the previous call's,
\* starting from 1, whether or not its send succeeds; the Request it puts on
\* the wire carries that numeric id; the counter changes in no other step.
\* Hence the ids on the wire are strictly increasing and never repeat.
C2_IdsCountCalls ==
    /\ [](\A i \in DOMAIN WireIds(wire) :
            /\ WireIds(wire)[i].k = "num"
            /\ WireIds(wire)[i].n >= i
            /\ WireIds(wire)[i].n <= request_counter
            /\ \A j \in DOMAIN WireIds(wire) :
                 j < i => WireIds(wire)[j].n < WireIds(wire)[i].n)
    /\ [][ /\ (call.pc = "idle" /\ (call'.pc = "waiting" \/ Returns))
              => /\ request_counter' = request_counter + 1
                 /\ (call'.pc = "waiting" =>
                        /\ call'.id = request_counter'
                        /\ wire' = Append(wire, RequestMsg(NumId(request_counter'),
                                                           call'.method)))
                 /\ (Returns => reqRes'[1].id = request_counter' /\ WireIds(wire') = WireIds(wire))
          /\ (call.pc # "idle" \/ (call'.pc = "idle" /\ ~Returns))
              => request_counter' = request_counter ]_vars

\* C2 witness: a second Request is on the wire, with id 2, after the first
\* request failed (with an error or by timeout).
C2_Witness ==
    /\ Len(WireIds(wire)) = 2
    /\ WireIds(wire)[2] = NumId(2)
    /\ call.pc = "waiting"
    /\ call.id = 2

\* The owned subprocess, if any, is running.
ChildAlive == subprocess = None \/ subprocess[1].state = "running"

\* The line is a well-formed Response carrying the id of the waiting call.
AnswersCall(line) ==
    /\ Decode(line) # None
    /\ Decode(line)[1].type = "Response"
    /\ Decode(line)[1].id = Some(NumId(call.id))

\* The line at the head of the pipe was written after the Request of the
\* waiting call was sent.
HeadWrittenWhileWaiting == nLines - Len(pipe) + 1 > call.since

\* C3: a well-formed Response that carries the id of the waiting request,
\* written while the subprocess is alive and before the timeout, is
\* delivered to that request: it is not dropped on its way from the stream
\* through the reader and the forwarder into the queue, and the step that
\* dequeues it makes that call, and no other, return its result.
C3_ResponseDelivered ==
    [][ (call.pc = "waiting" /\ ChildAlive)
        => /\ (pipe # <<>> /\ pipe' = Tail(pipe) /\ AnswersCall(Head(pipe))
                 /\ HeadWrittenWhileWaiting)
              => sub' = Append(sub, OkItem(Decode(Head(pipe))[1]))
           /\ (sub # <<>> /\ Len(sub') < Len(sub) /\ Head(sub).ok
                 /\ Head(sub).msg[1].type = "Response"
                 /\ Head(sub).msg[1].id = Some(NumId(call.id)))
              => queue' = Append(queue, Head(sub).msg[1])
           /\ (HeadMatches /\ Dequeues)
              => /\ Returns
                 /\ reqRes'[1].id = call.id
                 /\ (Head(queue).result # None /\ Head(queue).error = None)
                      => reqRes'[1].res = OkR(Head(queue).result[1]) ]_vars

\* C4: the step that dequeues the matching Response with its error field set
\* makes request() return the Protocol error built from that error's code,
\* message and data, and never Ok, whether or not a result is present too.
C4_ErrorWins ==
    [][ (call.pc = "waiting" /\ HeadMatches /\ Dequeues
           /\ Head(queue).error # None)
        => /\ Returns
           /\ reqRes'[1].id = call.id
           /\ reqRes'[1].res.kind = "Protocol"
           /\ reqRes'[1].res =
                ProtocolErr(ErrorCodeFrom(Head(queue).error[1].code),
                            Head(queue).error[1].message,
                            Head(queue).error[1].data) ]_vars

\* C4 witness: a request returned the Protocol error of a Response that
\* carried a result as well (the only line with the code -32601).
C4_Witness ==
    /\ reqRes # None
    /\ reqRes[1].res = ProtocolErr("MethodNotFound", NotFoundError.message,
                                   NotFoundError.data)

\* C5: the step that dequeues the matching Response with neither result nor
\* error makes request() return the Protocol error InternalError "Response
\* missing result"; the call does not go on waiting.
C5_MissingResultIsError ==
    [][ (call.pc = "waiting" /\ HeadMatches /\ Dequeues
           /\ Head(queue).error = None /\ Head(queue).result = None)
        => /\ Returns
           /\ call'.pc = "idle"
           /\ reqRes'[1].id = call.id
           /\ reqRes'[1].res =
                ProtocolErr("InternalError", "Response missing result", None) ]_vars

\* C5 witness: a request returned the missing-result error.
C5_Witness ==
    /\ reqRes # None
    /\ reqRes[1].res = ProtocolErr("InternalError", "Response missing result", None)

\* No Response carrying the id of the waiting call is in the mpsc queue.
NoAnswerQueued ==
    \A i \in DOMAIN queue :
        ~(queue[i].type = "Response" /\ queue[i].id = Some(NumId(call.id)))

\* C6: when the message stream has ended (the peer closed it, the reader
\* stopped and the forwarder saw the end), no matching Response is left
\* to dequeue and no owned subprocess has exited, the waiting request()
\* returns the InternalError "Connection closed while waiting for response".
C6_ConnectionClosedReported ==
    [][ (call.pc = "waiting" /\ peerClosed /\ pipe = <<>>
           /\ reader = "done" /\ forwarder = "done"
           /\ NoAnswerQueued /\ ChildAlive /\ Returns)
        => reqRes'[1].res =
             ProtocolErr("InternalError",
                         "Connection closed while waiting for response", None) ]_vars

\* C7: a request() whose Request was sent always returns: it never waits
\* with the liveness loop used up, and from every state in which it waits a
\* state in which it has returned is reached.
C7_RequestTerminates ==
    /\ [](call.pc = "waiting" => call.polls < PollLimit)
    /\ (call.pc = "waiting") ~> (call.pc = "idle")

\* C7 witness: a request returned the timeout error, after the last burst of
\* the liveness loop.
C7_Witness ==
    /\ reqRes # None
    /\ reqRes[1].res = OtherErr("Request timed out after 30 seconds", None)
    /\ reqRes[1].polls + PollBurst >= PollLimit

\* C8: a liveness poll of a waiting request() whose owned subprocess has
\* exited makes the call return the process-exited error with that exit
\* status, however many polls of the loop are left.
C8_ExitReportedAtPoll ==
    [][ (RequestPoll /\ subprocess # None /\ subprocess[1].state = "exited")
        => /\ Returns
           /\ call'.pc = "idle"
           /\ reqRes'[1].res = OtherErr("Process exited with status",
                                        Some(subprocess[1].status)) ]_vars

\* C8 witness: a request returned the process-exited error at the first
\* poll of its liveness loop.
C8_Witness ==
    /\ reqRes # None
    /\ reqRes[1].res.message = "Process exited with status"
    /\ reqRes[1].res.status = Some(1)
    /\ reqRes[1].polls = 0

\* initialize() returned Ok as the last API call.
InitializeReturnedOk ==
    ret # None /\ ret[1].op = "initialize" /\ ret[1].res.kind = "Ok"

\* C9: the cached capabilities become Some only in a step in which the
\* request of an initialize() call returns Ok with a result that parses, and
\* are then those of that result; once Some they never become None again;
\* they are Some when initialize() has returned Ok, and in particular when
\* spawn_and_initialize has returned a Client.
C9_CapabilitiesIffInitialized ==
    /\ [](InitializeReturnedOk => server_capabilities # None)
    /\ [](builder = "ok" => server_capabilities # None)
    /\ [](builder = "running" => server_capabilities = None)
    /\ [][ /\ (server_capabilities # None => server_capabilities' # None)
          /\ (server_capabilities' # server_capabilities)
              => /\ call.op = "initialize"
                 /\ Returns
                 /\ reqRes'[1].res.kind = "Ok"
                 /\ server_capabilities' =
                      ParseInitializeResult(reqRes'[1].res.value)
                 /\ server_capabilities' # None ]_vars

\* C9 witness: spawn_and_initialize returned a Client, whose capabilities
\* are Some.
C9_Witness ==
    /\ builder = "ok"
    /\ InitializeReturnedOk
    /\ server_capabilities = Some("caps")

\* The step sends a Notification.
SendsNotification ==
    \E i \in DOMAIN wire' : i > Len(wire) /\ wire'[i].type = "Notification"

\* C10: when the request of an initialize() call returns an error (a send
\* failure, a Protocol error, a process exit or the timeout) or a result
\* that does not parse as InitializeResult, initialize() returns an error,
\* the cached capabilities keep their value (None on a fresh Client) and no
\* notification is sent.
C10_FailedInitializeLeavesNoTrace ==
    [][ (Returns /\ ret' # None /\ ret'[1].op = "initialize"
           /\ (reqRes'[1].res.kind # "Ok"
                 \/ ParseInitializeResult(reqRes'[1].res.value) = None))
        => /\ ret'[1].res.kind # "Ok"
           /\ server_capabilities' = server_capabilities
           /\ ~SendsNotification ]_vars

\* C10 witness: initialize() failed on a result that does not parse, with
\* the capabilities still None.
C10_Witness ==
    /\ ret # None
    /\ ret[1].op = "initialize"
    /\ ret[1].res.kind = "Serialization"
    /\ reqRes # None
    /\ reqRes[1].res = OkR("Other")
    /\ server_capabilities = None

\* The last API call that returned on the Client is an initialize() that
\* failed, and the Client is still held by the application.
InitializeFailed ==
    /\ client = "alive"
    /\ ret # None
    /\ ret[1].op = "initialize"
    /\ ret[1].res.kind # "Ok"

\* C11: once initialize() has failed, the next protocol operation called on
\* that Client puts no message on the wire and does not return Ok.
C11_UnusableAfterFailedInitialize ==
    [][ InitializeFailed
        => /\ wire' = wire
           /\ (ret' # None /\ ret' # ret /\ ret'[1].op # "shutdown")
                => ret'[1].res.kind # "Ok" ]_vars

\* The step puts the initialized notification on the wire.
SendsInitialized ==
    \E i \in DOMAIN wire' :
        i > Len(wire) /\ wire'[i] = NotificationMsg("notifications/initialized")

\* C12: the step in which initialize() starts puts the "initialize" Request,
\* and nothing else, on the wire; the initialized notification is put on the
\* wire only by the step in which that call dequeues its matching Response
\* with a result and no error, the capabilities parsed from that result are
\* stored in the same step, exactly one notification is sent, and the
\* message sent last before it is the "initialize" Request of the call.
C12_InitializeWireOrder ==
    [][ /\ (call.pc = "idle" /\ call'.pc = "waiting" /\ call'.op = "initialize")
            => wire' = Append(wire, RequestMsg(NumId(call'.id), "initialize"))
        /\ SendsInitialized
            => /\ call.pc = "waiting"
               /\ call.op = "initialize"
               /\ HeadMatches
               /\ Dequeues
               /\ Head(queue).error = None
               /\ Head(queue).result # None
               /\ ParseInitializeResult(Head(queue).result[1]) # None
               /\ server_capabilities' =
                    Some(ParseInitializeResult(Head(queue).result[1])[1])
               /\ wire # <<>>
               /\ wire[Len(wire)] = RequestMsg(NumId(call.id), "initialize")
               /\ wire' = Append(wire, NotificationMsg("notifications/initialized"))
        /\ (call.pc = "waiting" /\ call.op = "initialize" /\ ~SendsInitialized)
            => wire' = wire ]_vars

\* C12 witness: initialize() returned Ok with the Request and the
\* notification as the last two messages on the wire, the capabilities stored.
C12_Witness ==
    /\ InitializeReturnedOk
    /\ Len(wire) >= 2
    /\ wire[Len(wire) - 1].type = "Request"
    /\ wire[Len(wire) - 1].method = "initialize"
    /\ wire[Len(wire)] = NotificationMsg("notifications/initialized")
    /\ server_capabilities = Some("caps")

\* The owned subprocess, if any, is not running.
ChildStopped == subprocess = None \/ subprocess[1].state # "running"

\* shutdown() returns in this step.
ShutdownReturns == shutdowns' = shutdowns + 1

WaitsIn(log) == Cardinality({ i \in DOMAIN log : log[i] = "wait" })

\* C15: shutdown() closes the Transport first; with no subprocess, or with
\* one that is not running, it does nothing more and sends no kill; with a
\* running subprocess it waits, and either the subprocess exited by itself
\* within that wait and no kill is sent, or it sends one kill and waits
\* once more; it returns Ok after at most two waits.
C15_ShutdownOrder ==
    [][ ShutdownReturns
        => /\ ret' = Some([op |-> "shutdown", res |-> OkR("unit")])
           /\ shutLog' # <<>>
           /\ shutLog'[1] = "close"
           /\ WaitsIn(shutLog') <= 2
           /\ IF subprocess # None /\ subprocess[1].state = "running"
              THEN \/ /\ shutLog' = <<"close", "wait">>
                      /\ kills' = kills
                      /\ subprocess'[1].state = "exited"
                      /\ subprocess'[1].status \in ExitStatuses
                   \/ /\ shutLog' = <<"close", "wait", "kill", "wait">>
                      /\ kills' = kills + 1
                      /\ subprocess' = Some(Child("exited", KilledStatus))
              ELSE /\ shutLog' = <<"close">>
                   /\ kills' = kills
                   /\ subprocess' = subprocess ]_vars

\* C15 witness: a first shutdown() found the subprocess running, which
\* exited by itself during the first wait, so that no kill was sent.
C15_Witness ==
    /\ shutdowns = 1
    /\ shutLog = <<"close", "wait">>
    /\ kills = 0
    /\ subprocess # None
    /\ subprocess[1].state = "exited"
    /\ subprocess[1].status \in ExitStatuses

Contains(s, t) ==
    \E i \in 1..(Len(s) - Len(t) + 1) : SubSeq(s, i, i + Len(t) - 1) = t

\* The request of call_tool returned a value that parses as CallToolResult.
ToolResultParsed ==
    /\ toolRes # None
    /\ toolRes[1].kind = "Ok"
    /\ ParseCallToolResult(toolRes[1].value) # None

RECURSIVE AfterFrames(_)
AfterFrames(stream) ==
    IF Len(stream) >= 3 /\ SubSeq(stream, 1, 3) = Frame(stream[1].s)
    THEN AfterFrames(SubSeq(stream, 4, Len(stream)))
    ELSE stream

\* Number of complete frames of sender s that lead the stream.
RECURSIVE FramesOf(_, _)
FramesOf(stream, s) ==
    IF Len(stream) >= 3 /\ SubSeq(stream, 1, 3) = Frame(stream[1].s)
    THEN (IF stream[1].s = s THEN 1 ELSE 0)
         + FramesOf(SubSeq(stream, 4, Len(stream)), s)
    ELSE 0

\* C17: the output stream is a concatenation of complete frames (the JSON
\* of one sender's message, then its newline), followed only by the part
\* of its frame written so far by the one sender that is inside send, or
\* by a sender whose send failed, after which nothing is written; a send
\* that returned Ok has exactly one frame in the stream, a sender that has
\* not finished writing has none, and no sender has more than one.
C17_FramesNotInterleaved ==
    LET rest == AfterFrames(outStream) IN
    /\ Len(rest) <= 2
    /\ rest # <<>>
         => /\ rest = SubSeq(Frame(rest[1].s), 1, Len(rest))
            /\ \/ writerLock = rest[1].s /\ sendPc[rest[1].s] \in {"json2", "nl"}
               \/ sendPc[rest[1].s] = "err"
    /\ \A s \in Senders :
         /\ sendPc[s] = "ok" => FramesOf(outStream, s) = 1
         /\ sendPc[s] \in {"idle", "json1", "json2", "nl"}
              => FramesOf(outStream, s) = 0
         /\ FramesOf(outStream, s) <= 1

\* C17 witness: every sender has returned Ok from send, and the frames are
\* in the stream in another order than that of the senders.
C17_Witness ==
    /\ \A s \in Senders : sendPc[s] = "ok"
    /\ Len(outStream) = 3 * MaxSenders
    /\ outStream[1].s # 1

\* The forwarder's subscription exists and has room: what the reader
\* publishes is appended to it.
Subscribed == forwarder = "running" /\ Len(sub) < BroadcastCapacity

\* The reader reads the line at the head of the pipe in this step.
ReadsLine == reader = "running" /\ pipe # <<>> /\ pipe' = Tail(pipe)

\* C18: the reader publishes one Serialization error item for a line that
\* does not decode and keeps running, as it does after a decoded line (one
\* message item) and a blank line (no item); a read error and EOF each
\* publish one error item and stop the reader; a stopped reader stays
\* stopped, reads no line and publishes nothing.
C18_ReaderErrorHandling ==
    [][ /\ ReadsLine
            => IF Head(pipe).form = "nonutf8"
               THEN /\ reader' = "done"
                    /\ Subscribed => sub' = Append(sub, ErrItem("Io"))
               ELSE /\ reader' = "running"
                    /\ IF Head(pipe).form = "empty"
                       THEN sub' = sub
                       ELSE IF Decode(Head(pipe)) = None
                       THEN Subscribed
                              => sub' = Append(sub, ErrItem("Serialization"))
                       ELSE Subscribed
                              => sub' = Append(sub, OkItem(Decode(Head(pipe))[1]))
        /\ (reader = "running" /\ reader' = "done" /\ ~ReadsLine)
            => /\ pipe = <<>>
               /\ peerClosed
               /\ Subscribed => sub' = Append(sub, ErrItem("EOF"))
        /\ reader = "done"
            => /\ reader' = "done"
               /\ ~(pipe # <<>> /\ pipe' = Tail(pipe))
               /\ Len(sub') <= Len(sub) ]_vars

\* C18 witness: the reader published the error item of a line that did not
\* decode and then the message of the line that followed it.
C18_Witness ==
    /\ Len(sub) = 2
    /\ sub[1] = ErrItem("Serialization")
    /\ sub[2].ok
    /\ reader = "running"

\* The codec has decoded a JSON object.
ObjectDecoded == codecOut # None /\ codecIn[1].obj # None

\* C19: an object with id and method decodes as a Request; with id, without
\* method, with result or error as a Response; with method and without id
\* as a Notification; with id alone, and with neither id nor method, it
\* does not decode; whatever other members are present.
C19_ClassifiedByPresence ==
    ObjectDecoded
    => LET o == codecIn[1].obj[1]
           d == codecOut[1]
       IN /\ (o.id # None /\ o.method # None)
               => d # None /\ d[1].type = "Request"
          /\ (o.id # None /\ o.method = None
                /\ (o.result # None \/ o.error # None))
               => d # None /\ d[1].type = "Response"
          /\ (o.id = None /\ o.method # None)
               => d # None /\ d[1].type = "Notification"
          /\ (o.id # None /\ o.method = None /\ o.result = None
                /\ o.error = None)
               => d = None
          /\ (o.id = None /\ o.method = None) => d = None

\* C19 witness: an object with id, method, result and error all present was
\* decoded, as a Request.
C19_Witness ==
    /\ ObjectDecoded
    /\ codecIn[1].obj[1].id # None
    /\ codecIn[1].obj[1].method # None
    /\ codecIn[1].obj[1].result # None
    /\ codecIn[1].obj[1].error # None
    /\ codecOut[1] # None
    /\ codecOut[1][1].type = "Request"

\* C20: decoding the encoding of a message succeeds and yields that message.
C20_RoundTrip ==
    (codecOut # None /\ codecIn[1].msg # None)
    => codecOut[1] = codecIn[1].msg

\* The marks of the messages on their way to request(), from the one that
\* is dequeued next to the one that was written last: those in the mpsc
\* queue, those in the forwarder's subscription, those of the lines in the
\* pipe that decode.
RECURSIVE QueueMarks(_)
QueueMarks(q) ==
    IF q = <<>> THEN <<>> ELSE <<MarkNo(MarkOf(Head(q)))>> \o QueueMarks(Tail(q))
RECURSIVE SubMarks(_)
SubMarks(items) ==
    IF items = <<>> THEN <<>>
    ELSE (IF Head(items).ok THEN <<MarkNo(MarkOf(Head(items).msg[1]))>> ELSE <<>>)
         \o SubMarks(Tail(items))
RECURSIVE PipeMarks(_)
PipeMarks(lines) ==
    IF lines = <<>> THEN <<>>
    ELSE (IF Decode(Head(lines)) # None
          THEN <<MarkNo(MarkOf(Decode(Head(lines))[1]))>> ELSE <<>>)
         \o PipeMarks(Tail(lines))
InFlightMarks == QueueMarks(queue) \o SubMarks(sub) \o PipeMarks(pipe)

\* C21: the messages on their way to request() are in the order of their
\* lines (in the queue, in the subscription and in the pipe, the queue
\* holding the oldest), and request() dequeues the oldest of them: a message
\* written before another is never dequeued after it.
C21_DeliveredInLineOrder ==
    /\ [](\A i, j \in DOMAIN InFlightMarks :
            i < j => InFlightMarks[i] < InFlightMarks[j])
    /\ [][ (call.pc = "waiting" /\ Dequeues)
           => /\ InFlightMarks # <<>>
              /\ \A j \in DOMAIN InFlightMarks :
                   j > 1 => InFlightMarks[1] < InFlightMarks[j] ]_vars

\* C21 witness: request() has dequeued two messages, with the third line
\* forwarded into the queue behind them.
C21_Witness ==
    /\ call.pc = "waiting"
    /\ call.skipped = 2
    /\ nLines = 3
    /\ queue # <<>>
    /\ MarkOf(Head(queue)) = "m3"

\* The message at the head of the mpsc queue is a Response to a request
\* made before the waiting one.
HeadIsLate == queue # <<>> /\ IsLate(Head(queue), call.id)

\* C22: a waiting request() that dequeues a Response carrying the id of an
\* earlier request drops it and goes on waiting for its own id, the
\* messages queued behind it untouched; a request() that has dropped such a
\* Response returns Ok only on the Response carrying its own id, with that
\* Response's result.
C22_LateResponseDiscarded ==
    [][ /\ (call.pc = "waiting" /\ HeadIsLate /\ Dequeues)
            => /\ ~Returns
               /\ reqRes' = None
               /\ call'.pc = "waiting"
               /\ call'.id = call.id
               /\ call'.late = call.late + 1
               /\ queue' = Tail(queue)
        /\ (Returns /\ call.late >= 1 /\ reqRes'[1].res.kind = "Ok")
            => /\ HeadMatches
               /\ ~HeadIsLate
               /\ reqRes'[1].id = call.id
               /\ reqRes'[1].res = OkR(Head(queue).result[1]) ]_vars

\* C22 witness: the second request() returned Ok on its own Response after
\* it had dropped a Response to the first.
C22_Witness ==
    /\ reqRes # None
    /\ reqRes[1].id = 2
    /\ reqRes[1].late = 1
    /\ reqRes[1].res.kind = "Ok"

\* The application's notify() call runs in this step.
NotifyCalled ==
    /\ call.pc = "idle"
    /\ call'.pc = "idle"
    /\ nCalls' = nCalls + 1
    /\ ret' # None
    /\ ret'[1].op = "notify"

\* C23: notify() runs from call to return in one step, whatever is or is
\* not waiting in the pipe, the subscription and the queue; when its send
\* succeeded it returns Ok and exactly one message, a Notification without
\* id, was put on the wire; when its send failed it returns that error and
\* nothing was put on the wire; the request counter, the queue, the
\* subscription and the cached capabilities are as before.
C23_NotifyFrame ==
    [][ NotifyCalled
        => /\ IF ret'[1].res.kind = "Ok"
              THEN /\ Len(wire') = Len(wire) + 1
                   /\ SubSeq(wire', 1, Len(wire)) = wire
                   /\ wire'[Len(wire')].type = "Notification"
                   /\ wire'[Len(wire')].id = None
              ELSE /\ ret'[1].res.kind = "Io"
                   /\ wire' = wire
           /\ request_counter' = request_counter
           /\ queue' = queue
           /\ sub' = sub
           /\ pipe' = pipe
           /\ server_capabilities' = server_capabilities
           /\ reqRes' = reqRes ]_vars

\* C23 witness: notify() returned Ok after an earlier request, with a
\* message left in the queue and the counter still at 1.
C23_Witness ==
    /\ ret # None
    /\ ret[1].op = "notify"
    /\ ret[1].res.kind = "Ok"
    /\ wire # <<>>
    /\ wire[Len(wire)].type = "Notification"
    /\ request_counter = 1
    /\ queue # <<>>

\* Spawning the command fails, or the child lacks one of its handles.
SpawnFails ==
    spawnEnv # None
    /\ (~spawnEnv[1].spawns \/ ~spawnEnv[1].stdout \/ ~spawnEnv[1].stdin)

\* C24: when spawning the command fails or the child lacks its stdout or
\* its stdin handle, spawn_and_initialize returns an I/O error at its first
\* step, and at no time is there a transport (no reader task), a Client (no
\* forwarder task), a message on the wire or a request id taken.
C24_SpawnFailureReturnsError ==
    /\ [](SpawnFails
            => /\ builder \in {"spawning", "failed"}
               /\ client = "none"
               /\ reader = "none"
               /\ forwarder = "none"
               /\ wire = <<>>
               /\ request_counter = 0
               /\ subprocess = None)
    /\ [][ (SpawnFails /\ builder = "spawning" /\ builder' # builder)
           => /\ builder' = "failed"
              /\ ret' # None
              /\ ret'[1].op = "spawn_and_initialize"
              /\ ret'[1].res.kind = "Io" ]_vars

\* C24 witness: spawn_and_initialize returned the error of a child that was
\* spawned with a stdout handle and without a stdin handle.
C24_Witness ==
    /\ spawnEnv = Some([spawns |-> TRUE, stdout |-> TRUE, stdin |-> FALSE])
    /\ builder = "failed"
    /\ ret = Some([op |-> "spawn_and_initialize",
                   res |-> IoErr("No stdin available from spawned process")])
    /\ wire = <<>>

\* The last n lines of a file, all of them when it has fewer.
LastLines(lines, n) ==
    SubSeq(lines, Len(lines) - (IF n < Len(lines) THEN n ELSE Len(lines)) + 1,
           Len(lines))

\* C25: get_stderr on a Client without stderr file returns an error; with a
\* file it returns Ok of the last n lines of the file, in their order,
\* joined by newlines, n being the argument, or 100 without argument.
C25_StderrTail ==
    stderrRet # None
    => IF stderrArgs[1].file = None
       THEN stderrRet[1].kind = "Other"
       ELSE LET n == IF stderrArgs[1].tail_lines = None THEN DefaultTail
                     ELSE stderrArgs[1].tail_lines[1]
            IN /\ stderrRet[1].kind = "Ok"
               /\ stderrRet[1].value = Join(LastLines(stderrArgs[1].file[1], n))
               /\ Len(stderrLoop[1].last_lines) <= n

\* The reader task, or the forwarder task, ends in this step.
ReaderStops == reader = "running" /\ reader' = "done"
ForwarderStops == forwarder # "done" /\ forwarder' = "done"

\* C26: the reader task ends only on EOF or on a read error; the forwarder
\* task of a Client that is still held ends only on the item the reader
\* published when it ended, so only once the reader has ended; a task that
\* has ended does not run again.
C26_TasksStopOnlyAtEnd ==
    [][ /\ ReaderStops
            => \/ pipe = <<>> /\ peerClosed
               \/ pipe # <<>> /\ Head(pipe).form = "nonutf8"
        /\ (ForwarderStops /\ client = "alive")
            => /\ reader = "done"
               /\ sub # <<>>
               /\ Head(sub) \in {ErrItem("EOF"), ErrItem("Io")}
        /\ reader = "done" => reader' = "done"
        /\ forwarder = "done" => forwarder' = "done" ]_vars

\* The callers that have taken their id and have not returned.
InRequest == { c \in Callers : reqPc[c].pc \in {"send", "lockrx", "waiting"} }

\* C27: of the tasks that call request() on one Client at most one is
\* between taking its id and returning; a Request is written, and a message
\* is taken from the queue, only by that one caller, while every other
\* caller has either returned or not yet taken an id.
C27_CallsSerialized ==
    /\ [](Cardinality(InRequest) <= 1)
    /\ [](\A c \in Callers :
            /\ reqPc[c].pc \in {"send", "lockrx", "waiting"} => counterLock = c
            /\ reqPc[c].pc = "waiting" <=> rxLock = c)
    /\ [][ /\ wire' # wire
               => \E c \in Callers :
                    /\ InRequest = {c}
                    /\ wire' = Append(wire, RequestMsg(NumId(reqPc[c].id), "tools/list"))
           /\ Dequeues
               => \E c \in Callers : InRequest = {c} /\ reqPc[c].pc = "waiting" ]_vars

\* C27 witness: both callers have returned Ok, the second having taken the
\* first id; the two Requests are on the wire in the order of their ids.
C27_Witness ==
    /\ \A c \in Callers : reqPc[c].pc = "returned" /\ reqPc[c].res[1].kind = "Ok"
    /\ reqPc[2].id = 1
    /\ reqPc[1].id = 2
    /\ wire = <<RequestMsg(NumId(1), "tools/list"), RequestMsg(NumId(2), "tools/list")>>

\* C28: whatever the order in which the reader task, the forwarder task and
\* the first request() start, the Response the reader reads for that
\* request while the forwarder task has not ended is published to the
\* forwarder's subscription, from where it is forwarded into the queue.
C28_NoStartupLoss ==
    [][ (ReadsLine /\ call.pc = "waiting" /\ call.id = 1
           /\ AnswersCall(Head(pipe)) /\ forwarder # "done")
        => /\ sub' # <<>>
           /\ sub'[Len(sub')] = OkItem(Decode(Head(pipe))[1]) ]_vars

\* C29: a subscriber of receive() that was overrun by the reader (more
\* items published than the broadcast channel holds since it last took
\* one) has not reached the end of its stream: the next poll does not end
\* it, and the stream goes on with the items that were kept.
C29_LaggedStreamContinues ==
    [][ (forwarder = "running" /\ lagged /\ client = "alive"
           /\ \A i \in DOMAIN sub : sub[i].ok)
        => /\ forwarder' = "running"
           /\ Len(sub') >= Len(sub) - 1 ]_vars

\* C30: a line that does not decode does not break correlation: a Response
\* with the id of the waiting request that the reader published behind the
\* Serialization error item of such a line, both written after the Request
\* was sent, stays on its way to the queue when the forwarder passes the
\* error item.
C30_MalformedLineSkipped ==
    [][ (call.pc = "waiting" /\ call.since = 0
           /\ client = "alive" /\ forwarder = "running"
           /\ Len(sub) >= 2
           /\ sub[1] = ErrItem("Serialization")
           /\ sub[2].ok
           /\ sub[2].msg[1].type = "Response"
           /\ sub[2].msg[1].id = Some(NumId(call.id)))
        => /\ forwarder' = "running"
           /\ \E i \in DOMAIN sub' : sub'[i] = sub[2] ]_vars

\* C31: a request() whose transport.send fails returns that error in the
\* step in which it was called: it has not polled, has taken nothing from
\* the queue and has written no Request; the id it took stays taken, as the
\* counter only grows and every request takes the counter's next value.
C31_SendFailureReturnsAtOnce ==
    [][ /\ (call.pc = "idle" /\ Returns)
            => /\ reqRes'[1].res = IoErr("send failed")
               /\ ret'[1].res = IoErr("send failed")
               /\ reqRes'[1].id = request_counter + 1
               /\ request_counter' = request_counter + 1
               /\ reqRes'[1].polls = 0
               /\ reqRes'[1].skipped = 0
               /\ queue' = queue
               /\ wire' = wire
               /\ call'.pc = "idle"
        /\ request_counter' >= request_counter
        /\ (call.pc = "idle" /\ call'.pc = "waiting")
            => /\ request_counter' = request_counter + 1
               /\ call'.id = request_counter' ]_vars

\* C31 witness: the first request failed to send and the second one is
\* waiting with id 2; no Request with id 1 was written.
C31_Witness ==
    /\ call.pc = "waiting"
    /\ call.id = 2
    /\ call.op = "request"
    /\ wire = <<RequestMsg(NumId(2), "tools/list")>>

\* C32: a step in which initialize returns an error, whatever the cause,
\* leaves the stored server capabilities as they were before the call.
C32_FailedInitializeKeepsCapabilities ==
    [][ (ret' # None /\ ret' # ret /\ ret'[1].op = "initialize"
           /\ ret'[1].res.kind # "Ok")
        => server_capabilities' = server_capabilities ]_vars

\* The message at the head of the queue was in the queue when the waiting
\* call started.
HeadIsBacklog == queue # <<>> /\ call.skipped < call.backlog

\* The queue changes only by losing its head or by gaining a last message.
QueueFifoStep ==
    \/ queue' = queue
    \/ queue # <<>> /\ queue' = Tail(queue)
    \/ Len(queue') = Len(queue) + 1 /\ SubSeq(queue', 1, Len(queue)) = queue

\* C33 as stated: none of the messages that were queued while no request()
\* was waiting is returned as the result of the next call; that call
\* discards every one of them.
C33_BacklogNeverReturned ==
    [][ (call.pc = "waiting" /\ HeadIsBacklog /\ Dequeues)
        => /\ ~Returns
           /\ call'.pc = "waiting" ]_vars

\* C33 amended: messages stay in the queue in arrival order while no
\* request() waits; the next call starts with all of them queued and takes
\* them oldest first, before any later message; it discards each of them
\* unless it is a Response carrying the id the call took, on which the call
\* returns; a message once taken is never put back for a later call.
C33_BacklogConsumedInOrder ==
    [][ /\ QueueFifoStep
        /\ call.pc = "idle" => Len(queue') >= Len(queue)
        /\ (call.pc = "idle" /\ call'.pc = "waiting")
            => /\ queue' = queue
               /\ call'.backlog = Len(queue)
               /\ call'.skipped = 0
        /\ (call.pc = "waiting" /\ HeadIsBacklog /\ Dequeues)
            => IF HeadMatches
               THEN /\ Returns
                    /\ reqRes'[1].id = call.id
                    /\ reqRes'[1].res.kind \in {"Ok", "Protocol"}
               ELSE /\ ~Returns
                    /\ reqRes' = None
                    /\ call'.pc = "waiting"
                    /\ call'.id = call.id
                    /\ call'.skipped = call.skipped + 1 ]_vars

\* C33 witness: the call found one message queued, has taken and discarded
\* it, and now has the Response to its own Request, written after the call
\* started, at the head of the queue.
C33_Witness ==
    /\ call.pc = "waiting"
    /\ call.backlog = 1
    /\ call.skipped = 1
    /\ call.since = 1
    /\ HeadMatches

\* The timeout error of request().
TimeoutErr == OtherErr("Request timed out after 30 seconds", None)

\* C34: the liveness loop of a waiting request() looks at the subprocess
\* only when the Client owns one; with no subprocess, or with one that is
\* running, a round of polls that ends before the hundredth leaves the call
\* waiting and the round that reaches the hundredth makes it return the
\* timeout error; the timeout error is returned in no other step, and the
\* errors about the process only by a Client that owns a subprocess.
C34_TimeoutAfterAllPolls ==
    [][ /\ (RequestPoll /\ (subprocess = None \/ subprocess[1].state = "running"))
            => IF BurstEnd(call.polls) < PollLimit
               THEN /\ ~Returns
                    /\ call'.pc = "waiting"
                    /\ call'.polls = BurstEnd(call.polls)
               ELSE /\ Returns
                    /\ reqRes'[1].id = call.id
                    /\ reqRes'[1].res = TimeoutErr
        /\ (Returns /\ reqRes'[1].res = TimeoutErr)
            => /\ call.pc = "waiting"
               /\ BurstEnd(call.polls) = PollLimit
               /\ queue' = queue
        /\ (Returns /\ reqRes'[1].res.kind = "Other"
              /\ reqRes'[1].res # TimeoutErr)
            => subprocess # None /\ subprocess[1].state # "running" ]_vars

\* C34 witness: a Client that owns no subprocess returned the timeout error
\* from a request whose liveness loop ran to its last iteration.
C34_Witness ==
    /\ subprocess = None
    /\ reqRes # None
    /\ reqRes[1].res = TimeoutErr
    /\ reqRes[1].polls + PollBurst >= PollLimit
    /\ reqRes[1].polls < PollLimit

\* C35: the step in which the reader reads an empty line changes nothing
\* but the input: no item is published, the reader keeps running, and the
\* subscription, the queue and the waiting call are as they would be had
\* the line not been written.
C35_EmptyLineSkipped ==
    [][ (ReadsLine /\ Head(pipe).form = "empty")
        => /\ reader' = "running"
           /\ sub' = sub
           /\ lagged' = lagged
           /\ forwarder' = forwarder
           /\ queue' = queue
           /\ call' = call
           /\ reqRes' = reqRes ]_vars

\* C35 witness: the peer wrote an empty line and a Notification; the reader
\* has read both and runs, the forwarder was subscribed throughout, and the
\* Notification alone is in the subscription.
C35_Witness ==
    /\ nLines = 2
    /\ pipe = <<>>
    /\ reader = "running"
    /\ forwarder = "running"
    /\ queue = <<>>
    /\ sub = <<OkItem(NotificationMsg("notifications/progress"))>>

\* Both initialize runs are done.
BothInitialized ==
    initRun # None /\ initRun[1].outA # None /\ initRun[1].outB # None

BuilderInitializeFailed ==
    builder = "failed" /\ ret # None /\ ret[1].op = "initialize"

\* A child that spawn_and_initialize spawned is running.
SpawnedChildRunning ==
    \/ subprocess # None /\ subprocess[1].state = "running"
    \/ sdkChild # None /\ sdkChild[1].state = "running"

\* C37: when initialize fails inside spawn_and_initialize the caller gets
\* that error, and from then on a state is reached in which the child that
\* was spawned is not running.
C37_FailedInitializeStopsChild ==
    /\ [](BuilderInitializeFailed => ret[1].res.kind # "Ok")
    /\ BuilderInitializeFailed ~> ~SpawnedChildRunning

\* The configured servers that listed the tool when new ran.
ListedBy(tool_name) ==
    { s \in ServerNames :
        /\ mgr[1].configs[s].kind = "Tools"
        /\ tool_name \in mgr[1].configs[s].tools }

\* C38: a call_tool of the manager for a tool that a configured server
\* listed sends tools/call with that tool name to the client of a server
\* that listed it; for a name that no server listed it returns an error
\* and contacts no server.
C38_ToolRoutedToItsServer ==
    (mgr # None /\ mgr[1].state = "ready" /\ mgr[1].last # None)
    => LET c == mgr[1].last[1] IN
       IF ListedBy(c.tool_name) # {}
       THEN /\ c.out.kind = "Sent"
            /\ c.out.tool = c.tool_name
            /\ c.out.server \in ListedBy(c.tool_name)
       ELSE c.out.kind = "ToolNotFound"

\* The kind of request message that stands for a role.
KindOfRole(role) ==
    CASE role = "system" -> "System"
      [] role = "user" -> "User"
      [] role = "assistant" -> "Assistant"
      [] role = "tool" -> "Tool"

\* C39: ChatState keeps the messages in the order they were added, and
\* to_request_messages returns one request message per stored message in
\* that order; the request message of add_tool_message(tool_name, result)
\* has the result as its content, not the tool name.
C39_RequestMessagesInOrderWithResult ==
    (chat # None /\ chat[1].request # None)
    => LET st == chat[1]
           req == st.request[1]
       IN /\ Len(st.messages) = Len(st.added)
          /\ Len(req) <= Len(st.added)
          /\ \A i \in 1..Len(req) :
               /\ st.messages[i].role = st.added[i].role
               /\ req[i].kind = KindOfRole(st.added[i].role)
               /\ req[i].content = st.added[i].text

====
